---- MODULE Spec2Model ----
(***************************************************************************)
(* A model of the mini-c compiler core: the scoped symbol table            *)
(* (symbol.rs), the semantic analyzer (semantic.rs) and the lowering of    *)
(* the syntax tree to three-address IR (lower.rs).                         *)
(*                                                                         *)
(* Rust values are modelled as follows.  An enum value is a record with a  *)
(* "kind" field and the variant's own fields; Option<T> is a sequence of   *)
(* length 0 (None) or 1 (Some); Vec<T> is a sequence; HashMap<String, T>   *)
(* is a function whose domain is the set of keys; usize indices that the   *)
(* code uses as handles (scope indices) keep their 0-based values.         *)
(***************************************************************************)
EXTENDS Integers, Sequences, FiniteSets, TLC

VARIABLES
    program,   \* the syntax tree handed to analyze / lower_program
    pc,        \* where the caller of analyze and lower_program is in them
    symbols,   \* analyze: the SymbolTable (scopes, current)
    errors,    \* analyze: the accumulated Vec<SemanticError>
    fi,        \* index (1-based) of the function the current loop is at
    si,        \* index (1-based) of the statement the current loop is at
    result,    \* what analyze returned: <<>> not yet, <<"Ok">> or <<"Err">>
    state,     \* lower_program: the LowerState of the function being lowered
    instrs,    \* lower_program: the instructions of the function being lowered
    res,       \* lower_program: the Vec<FunctionIR> being built
    run,       \* which call of lower_program is in progress (1 or 2)
    res1,      \* the value returned by the first call of lower_program
    last,      \* symbol-table harness: the last operation and what it returned
    tac,       \* codegen_tac::emit_function: the text so far, a sequence of lines
    str_pool,  \* codegen_x64_windows::emit_function: string value -> label
    slots,     \* codegen_x64_windows::emit_function: name -> stack offset
    offset,    \* codegen_x64_windows::emit_function: the last offset given out
    frame_size,\* codegen_x64_windows::emit_function: the reserved frame
    out,       \* codegen_x64_windows::emit_function: the text so far, a
               \* sequence of lines
    call_args, \* the values a caller passes to the function being run
    cpu,       \* the processor running the emitted text of a function
    locals,    \* codegen::execute_function: the Locals map
    ret        \* codegen::execute_function: what it returned, if it has

\* The variables of the back end: the two emitters, the processor and the
\* reference interpreter.
back == <<tac, str_pool, slots, offset, frame_size, out, call_args, cpu, locals, ret>>

vars == <<program, pc, symbols, errors, fi, si, result, state, instrs, res, run, res1, last, back>>

----------------------------------------------------------------------------
(* Option<T> *)

None == <<>>

Some(x) == <<x>>

IsSome(o) == o # <<>>

Unwrap(o) == o[1]

----------------------------------------------------------------------------
(* symbol.rs *)

EmptyMap == [k \in {} |-> k]

MapInsert(m, k, v) == [x \in (DOMAIN m) \cup {k} |-> IF x = k THEN v ELSE m[x]]

ScopeNew(parent) == [symbols |-> EmptyMap, parent |-> parent]

NumScopes(t) == Cardinality(DOMAIN t.scopes)

SymbolTableNew == [scopes |-> [i \in {0} |-> ScopeNew(None)], current |-> 0]

SymFunction(sig) == [kind |-> "Function", sig |-> sig]

SymVariable(name, ty) == [kind |-> "Variable", name |-> name, ty |-> ty]

SymParam(name, ty) == [kind |-> "Param", name |-> name, ty |-> ty]

FunctionSig(name, return_type, params_types) ==
    [name |-> name, return_type |-> return_type, params_types |-> params_types]

\* An enter_scope that records the new scope as its own parent.
enter_scope_under_itself(t) ==
    [scopes |-> [i \in (DOMAIN t.scopes) \cup {NumScopes(t)} |->
                    IF i = NumScopes(t) THEN ScopeNew(Some(NumScopes(t))) ELSE t.scopes[i]],
     current |-> NumScopes(t)]

\* An enter_scope that opens a scope only once and re-enters it afterwards.
enter_scope_reentering(t) ==
    IF NumScopes(t) > 1 THEN [t EXCEPT !.current = 1]
    ELSE [scopes |-> [i \in (DOMAIN t.scopes) \cup {1} |->
                         IF i = 1 THEN ScopeNew(Some(t.current)) ELSE t.scopes[i]],
          current |-> 1]

enter_scope(t) ==
    LET parent == Some(t.current)
        id == NumScopes(t)
    IN [scopes |-> [i \in (DOMAIN t.scopes) \cup {id} |->
                        IF i = id THEN ScopeNew(parent) ELSE t.scopes[i]],
        current |-> id]

\* A leave_scope that returns to the global scope instead of the parent.
leave_scope_to_global(t) == [t EXCEPT !.current = 0]

leave_scope(t) ==
    IF IsSome(t.scopes[t.current].parent)
    THEN [t EXCEPT !.current = Unwrap(t.scopes[t.current].parent)]
    ELSE t

\* Insert into scope idx unless the key is present: the common body of the
\* three declare_* methods.  Returns the Result and the table afterwards.
DeclareIn(t, idx, name, sym, what) ==
    IF name \in DOMAIN t.scopes[idx].symbols
    THEN [ok |-> FALSE, err |-> what \o name, table |-> t]
    ELSE [ok |-> TRUE, err |-> "",
          table |-> [t EXCEPT !.scopes[idx].symbols = MapInsert(@, name, sym)]]

declare_global_function(t, sig) ==
    DeclareIn(t, 0, sig.name, SymFunction(sig), "duplicate function: ")

\* A declare_local_var that rejects a name visible anywhere on the chain.
declare_local_var_no_shadow(t, name, ty) ==
    IF \E i \in DOMAIN t.scopes : name \in DOMAIN t.scopes[i].symbols
    THEN [ok |-> FALSE, err |-> "duplicate local: " \o name, table |-> t]
    ELSE DeclareIn(t, t.current, name, SymVariable(name, ty), "duplicate local: ")

declare_local_var(t, name, ty) ==
    DeclareIn(t, t.current, name, SymVariable(name, ty), "duplicate local: ")

declare_param(t, name, ty) ==
    DeclareIn(t, t.current, name, SymParam(name, ty), "duplicate param: ")

RECURSIVE LookupFrom(_, _, _)
LookupFrom(t, scope_idx, name) ==
    IF name \in DOMAIN t.scopes[scope_idx].symbols
    THEN Some(t.scopes[scope_idx].symbols[name])
    ELSE IF IsSome(t.scopes[scope_idx].parent)
         THEN LookupFrom(t, Unwrap(t.scopes[scope_idx].parent), name)
         ELSE None

\* A lookup that consults the current scope and the global scope only.
lookup_skip_ancestors(t, name) ==
    IF name \in DOMAIN t.scopes[t.current].symbols
    THEN Some(t.scopes[t.current].symbols[name])
    ELSE LookupFrom(t, 0, name)

lookup(t, name) == LookupFrom(t, t.current, name)

\* A find_global_function that sees a function only from its own body on,
\* as if signatures were registered while the bodies are analyzed.
find_global_function_defined_so_far(t, name) ==
    IF /\ name \in DOMAIN t.scopes[0].symbols
       /\ t.scopes[0].symbols[name].kind = "Function"
       /\ \E k \in 1..fi : program.functions[k].name = name
    THEN Some(t.scopes[0].symbols[name].sig)
    ELSE None

find_global_function(t, name) ==
    IF name \in DOMAIN t.scopes[0].symbols /\ t.scopes[0].symbols[name].kind = "Function"
    THEN Some(t.scopes[0].symbols[name].sig)
    ELSE None

----------------------------------------------------------------------------
(* ast.rs: constructors of the syntax tree *)

Number(n) == [kind |-> "Number", n |-> n]

FloatNumber(f) == [kind |-> "FloatNumber", f |-> f]

CharLiteral(c) == [kind |-> "CharLiteral", c |-> c]

StringLiteral(s) == [kind |-> "StringLiteral", s |-> s]

Ident(name) == [kind |-> "Ident", name |-> name]

Unary(op, expr) == [kind |-> "Unary", op |-> op, expr |-> expr]

Binary(op, left, right) == [kind |-> "Binary", op |-> op, left |-> left, right |-> right]

Assign(name, value) == [kind |-> "Assign", name |-> name, value |-> value]

Call(name, args) == [kind |-> "Call", name |-> name, args |-> args]

VarDecl(ty, name, value) == [kind |-> "VarDecl", ty |-> ty, name |-> name, value |-> value]

ExprStmt(expr) == [kind |-> "ExprStmt", expr |-> expr]

Return(expr) == [kind |-> "Return", expr |-> expr]

Function(name, return_type, params, stmts) ==
    [name |-> name, return_type |-> return_type, params |-> params,
     body |-> [stmts |-> stmts]]

Program(functions) == [functions |-> functions]

----------------------------------------------------------------------------
(* semantic.rs *)

DuplicateFunction(name) == [kind |-> "DuplicateFunction", name |-> name]

DuplicateParam(func, name) == [kind |-> "DuplicateParam", func |-> func, name |-> name]

DuplicateVariable(func, name) == [kind |-> "DuplicateVariable", func |-> func, name |-> name]

UndeclaredVariable(func, name) == [kind |-> "UndeclaredVariable", func |-> func, name |-> name]

WrongArgCount(func, name, expected, found) ==
    [kind |-> "WrongArgCount", func |-> func, name |-> name,
     expected |-> expected, found |-> found]

TypeMismatch(func, expected, found) ==
    [kind |-> "TypeMismatch", func |-> func, expected |-> expected, found |-> found]

ReturnTypeMismatch(func, expected, found) ==
    [kind |-> "ReturnTypeMismatch", func |-> func, expected |-> expected, found |-> found]

\* An arity check that reports the counts the wrong way round.
CallAritySwapped(name, args, t, func_name) ==
    LET sig == find_global_function(t, name)
    IN IF IsSome(sig)
          /\ Len(Unwrap(sig).params_types) # 0
          /\ Len(Unwrap(sig).params_types) # Len(args)
       THEN <<WrongArgCount(func_name, name, Len(args), Len(Unwrap(sig).params_types))>>
       ELSE <<>>

\* An arity check that also reports a call with arguments of a function
\* declared without parameters.
CallArityEmptyListToo(name, args, t, func_name) ==
    LET sig == find_global_function(t, name)
    IN IF IsSome(sig) /\ Len(Unwrap(sig).params_types) # Len(args)
       THEN <<WrongArgCount(func_name, name, Len(Unwrap(sig).params_types), Len(args))>>
       ELSE <<>>

\* The arity check of Expr::Call: the diagnostics it pushes.
CallArity(name, args, t, func_name) ==
    LET sig == find_global_function(t, name)
    IN IF IsSome(sig)
          /\ Len(Unwrap(sig).params_types) # 0
          /\ Len(Unwrap(sig).params_types) # Len(args)
       THEN <<WrongArgCount(func_name, name, Len(Unwrap(sig).params_types), Len(args))>>
       ELSE <<>>

\* analyze_expr only reads the table; its effect is the diagnostics it
\* pushes, in push order.
RECURSIVE analyze_expr(_, _, _)
RECURSIVE AnalyzeArgs(_, _, _, _)
AnalyzeArgs(args, k, t, func_name) ==
    IF k > Len(args) THEN <<>>
    ELSE analyze_expr(args[k], t, func_name) \o AnalyzeArgs(args, k + 1, t, func_name)

analyze_expr(expr, t, func_name) ==
    CASE expr.kind \in {"Number", "FloatNumber", "CharLiteral", "StringLiteral"} -> <<>>
      [] expr.kind = "Ident" ->
            IF lookup(t, expr.name) = None
            THEN <<UndeclaredVariable(func_name, expr.name)>>
            ELSE <<>>
      [] expr.kind = "Unary" -> analyze_expr(expr.expr, t, func_name)
      [] expr.kind = "Binary" ->
            analyze_expr(expr.left, t, func_name) \o analyze_expr(expr.right, t, func_name)
      [] expr.kind = "Assign" ->
            (IF lookup(t, expr.name) = None
             THEN <<UndeclaredVariable(func_name, expr.name)>>
             ELSE <<>>)
            \o analyze_expr(expr.value, t, func_name)
      [] expr.kind = "Call" ->
            AnalyzeArgs(expr.args, 1, t, func_name)
            \o CallArity(expr.name, expr.args, t, func_name)

RECURSIVE expr_type(_, _)
expr_type(expr, t) ==
    CASE expr.kind = "Number" -> Some("Int")
      [] expr.kind = "FloatNumber" -> Some("Float")
      [] expr.kind = "CharLiteral" -> Some("Char")
      [] expr.kind = "StringLiteral" -> None
      [] expr.kind = "Ident" ->
            LET sym == lookup(t, expr.name)
            IN IF IsSome(sym) /\ Unwrap(sym).kind \in {"Variable", "Param"}
               THEN Some(Unwrap(sym).ty)
               ELSE None
      [] expr.kind = "Unary" -> None
      [] expr.kind = "Binary" ->
            LET l == expr_type(expr.left, t)
                r == expr_type(expr.right, t)
            IN IF l = r THEN l ELSE None
      [] expr.kind = "Assign" ->
            LET sym == lookup(t, expr.name)
            IN IF IsSome(sym) /\ Unwrap(sym).kind = "Variable"
               THEN Some(Unwrap(sym).ty)
               ELSE expr_type(expr.value, t)
      [] expr.kind = "Call" ->
            LET sig == find_global_function(t, expr.name)
            IN IF IsSome(sig) THEN Some(Unwrap(sig).return_type) ELSE None

\* semantic.rs 108-112: the type check of a VarDecl's initializer.
\* An initializer check that lets an Int value initialize a Float variable.
InitCheckWidening(stmt, t, func_name) ==
    LET vt == expr_type(stmt.value, t)
    IN IF IsSome(vt) /\ Unwrap(vt) # stmt.ty /\ ~(Unwrap(vt) = "Int" /\ stmt.ty = "Float")
       THEN <<TypeMismatch(func_name, stmt.ty, Unwrap(vt))>>
       ELSE <<>>

InitCheck(stmt, t, func_name) ==
    LET vt == expr_type(stmt.value, t)
    IN IF IsSome(vt) /\ Unwrap(vt) # stmt.ty
       THEN <<TypeMismatch(func_name, stmt.ty, Unwrap(vt))>>
       ELSE <<>>

\* A return check that reports a mismatch only for a Float expression.
ReturnCheckFloatOnly(expr, t, func_name) ==
    LET sig == find_global_function(t, func_name)
        rt == expr_type(expr, t)
    IN IF IsSome(sig) /\ rt = Some("Float") /\ Unwrap(rt) # Unwrap(sig).return_type
       THEN <<ReturnTypeMismatch(func_name, Unwrap(sig).return_type, Unwrap(rt))>>
       ELSE <<>>

\* semantic.rs 119-125: the type check of a return expression.
ReturnCheck(expr, t, func_name) ==
    LET sig == find_global_function(t, func_name)
        rt == expr_type(expr, t)
    IN IF IsSome(sig) /\ IsSome(rt) /\ Unwrap(rt) # Unwrap(sig).return_type
       THEN <<ReturnTypeMismatch(func_name, Unwrap(sig).return_type, Unwrap(rt))>>
       ELSE <<>>

\* An analyze_stmt that analyzes and type-checks the initializer of a
\* declaration also when the declaration collides.
analyze_stmt_initializer_always(stmt, t, func_name) ==
    CASE stmt.kind = "VarDecl" ->
            LET d == declare_local_var(t, stmt.name, stmt.ty)
            IN [table |-> d.table,
                errs |-> (IF d.ok THEN <<>> ELSE <<DuplicateVariable(func_name, stmt.name)>>)
                         \o analyze_expr(stmt.value, d.table, func_name)
                         \o InitCheck(stmt, d.table, func_name)]
      [] stmt.kind = "ExprStmt" ->
            [table |-> t, errs |-> analyze_expr(stmt.expr, t, func_name)]
      [] stmt.kind = "Return" ->
            [table |-> t,
             errs |-> analyze_expr(stmt.expr, t, func_name)
                      \o ReturnCheck(stmt.expr, t, func_name)]

\* analyze_stmt: the table afterwards and the diagnostics pushed.
analyze_stmt(stmt, t, func_name) ==
    CASE stmt.kind = "VarDecl" ->
            LET d == declare_local_var(t, stmt.name, stmt.ty)
            IN IF ~d.ok
               THEN [table |-> d.table,
                     errs |-> <<DuplicateVariable(func_name, stmt.name)>>]
               ELSE [table |-> d.table,
                     errs |-> analyze_expr(stmt.value, d.table, func_name)
                              \o InitCheck(stmt, d.table, func_name)]
      [] stmt.kind = "ExprStmt" ->
            [table |-> t, errs |-> analyze_expr(stmt.expr, t, func_name)]
      [] stmt.kind = "Return" ->
            [table |-> t,
             errs |-> analyze_expr(stmt.expr, t, func_name)
                      \o ReturnCheck(stmt.expr, t, func_name)]

\* Pass 1, the pairwise comparison of parameter names: for i, for j > i.
RECURSIVE DupParamPairs(_, _, _)
DupParamPairs(func, i, j) ==
    IF i > Len(func.params) THEN <<>>
    ELSE IF j > Len(func.params) THEN DupParamPairs(func, i + 1, i + 2)
    ELSE (IF func.params[i][2] = func.params[j][2]
          THEN <<DuplicateParam(func.name, func.params[i][2])>>
          ELSE <<>>)
         \o DupParamPairs(func, i, j + 1)

SigOf(func) ==
    FunctionSig(func.name, func.return_type,
                [k \in 1..Len(func.params) |-> func.params[k][1]])

\* Pass 1 for one function: the table afterwards and the diagnostics pushed.
Pass1Function(func, t) ==
    LET d == declare_global_function(t, SigOf(func))
    IN [table |-> d.table,
        errs |-> DupParamPairs(func, 1, 2)
                 \o (IF d.ok THEN <<>> ELSE <<DuplicateFunction(func.name)>>)]

\* Pass 2, the declaration of the parameters from the k-th on.
RECURSIVE DeclareParams(_, _, _)
DeclareParams(func, k, t) ==
    IF k > Len(func.params) THEN [table |-> t, errs |-> <<>>]
    ELSE LET d == declare_param(t, func.params[k][2], func.params[k][1])
             rest == DeclareParams(func, k + 1, d.table)
         IN [table |-> rest.table,
             errs |-> (IF d.ok THEN <<>>
                       ELSE <<DuplicateParam(func.name, func.params[k][2])>>)
                      \o rest.errs]

\* The value analyze returns for the accumulated diagnostics.
AnalyzeResult(errs) == IF errs = <<>> THEN "Ok" ELSE "Err"

\* An accumulation that records nothing once a diagnostic is present.
PushFirstFailureOnly(errs, new) == IF errs # <<>> THEN errs ELSE new

\* errors.push(..) for each diagnostic of a step, in order.
PushAll(errs, new) == errs \o new

----------------------------------------------------------------------------
(* ir.rs *)

Temp(name) == [kind |-> "Temp", name |-> name]

Local(name) == [kind |-> "Local", name |-> name]

ConstInt(i) == [kind |-> "ConstInt", i |-> i]

ConstFloat(f) == [kind |-> "ConstFloat", f |-> f]

ConstString(s) == [kind |-> "ConstString", s |-> s]

StoreLocal(name, src) == [kind |-> "StoreLocal", name |-> name, src |-> src]

CallInstr(dest, name, args) == [kind |-> "Call", dest |-> dest, name |-> name, args |-> args]

ReturnInstr(src) == [kind |-> "Return", src |-> src]

BinOp(dest, op, left, right) ==
    [kind |-> "BinOp", dest |-> dest, op |-> op, left |-> left, right |-> right]

FunctionIR(name, params, is) == [name |-> name, params |-> params, instrs |-> is]

----------------------------------------------------------------------------
(* lower.rs *)

\* `c as i64` for the characters the bounded programs use.
CharCode(c) ==
    CASE c = "A" -> 65
      [] c = "z" -> 122
      [] OTHER -> 48

\* A LowerState carried over from the function lowered before.
LowerStateKept == state

LowerStateNew == [tmp |-> 0]

\* gen_tmp: the state afterwards and the name generated, format!("t{}", id).
gen_tmp(st) ==
    LET id == st.tmp
    IN [state |-> [st EXCEPT !.tmp = id + 1], name |-> "t" \o ToString(id)]

UnaryOpName(op) == IF op = "Neg" THEN "neg" ELSE "not"

BinaryOpName(op) ==
    CASE op = "Add" -> "+"
      [] op = "Sub" -> "-"
      [] op = "Mul" -> "*"
      [] op = "Div" -> "/"

\* lower_expr: the state and the instruction vector afterwards, and the
\* operand returned.
RECURSIVE lower_expr(_, _, _)
RECURSIVE LowerArgs(_, _, _, _, _)
LowerArgs(args, k, st, is, op_args) ==
    IF k > Len(args) THEN [state |-> st, instrs |-> is, op_args |-> op_args]
    ELSE LET a == lower_expr(args[k], st, is)
         IN LowerArgs(args, k + 1, a.state, a.instrs, Append(op_args, a.operand))

lower_expr(expr, st, is) ==
    CASE expr.kind = "Number" -> [state |-> st, instrs |-> is, operand |-> ConstInt(expr.n)]
      [] expr.kind = "FloatNumber" ->
            [state |-> st, instrs |-> is, operand |-> ConstFloat(expr.f)]
      [] expr.kind = "CharLiteral" ->
            [state |-> st, instrs |-> is, operand |-> ConstInt(CharCode(expr.c))]
      [] expr.kind = "Ident" -> [state |-> st, instrs |-> is, operand |-> Local(expr.name)]
      [] expr.kind = "Unary" ->
            LET o == lower_expr(expr.expr, st, is)
                g == gen_tmp(o.state)
            IN [state |-> g.state,
                instrs |-> Append(o.instrs,
                                  BinOp(g.name, UnaryOpName(expr.op), o.operand, ConstInt(0))),
                operand |-> Temp(g.name)]
      [] expr.kind = "Binary" ->
            LET l == lower_expr(expr.left, st, is)
                r == lower_expr(expr.right, l.state, l.instrs)
                g == gen_tmp(r.state)
            IN [state |-> g.state,
                instrs |-> Append(r.instrs,
                                  BinOp(g.name, BinaryOpName(expr.op), l.operand, r.operand)),
                operand |-> Temp(g.name)]
      [] expr.kind = "Assign" ->
            LET v == lower_expr(expr.value, st, is)
            IN [state |-> v.state,
                instrs |-> Append(v.instrs, StoreLocal(expr.name, v.operand)),
                operand |-> Local(expr.name)]
      [] expr.kind = "Call" ->
            LET a == LowerArgs(expr.args, 1, st, is, <<>>)
                g == gen_tmp(a.state)
            IN [state |-> g.state,
                instrs |-> Append(a.instrs, CallInstr(Some(g.name), expr.name, a.op_args)),
                operand |-> Temp(g.name)]
      [] expr.kind = "StringLiteral" ->
            [state |-> st, instrs |-> is, operand |-> ConstString(expr.s)]

\* A statement loop that lowers nothing after the first Return.
lower_stmt_until_return(stmt, st, is) ==
    IF \E k \in 1..Len(is) : is[k].kind = "Return"
    THEN [state |-> st, instrs |-> is]
    ELSE LET v == lower_expr(IF stmt.kind = "VarDecl" THEN stmt.value ELSE stmt.expr, st, is)
         IN [state |-> v.state,
             instrs |-> CASE stmt.kind = "VarDecl" ->
                                Append(v.instrs, StoreLocal(stmt.name, v.operand))
                          [] stmt.kind = "ExprStmt" -> v.instrs
                          [] stmt.kind = "Return" ->
                                Append(v.instrs, ReturnInstr(Some(v.operand)))]

\* The body of lower_program's statement loop for one statement.
lower_stmt(stmt, st, is) ==
    CASE stmt.kind = "VarDecl" ->
            LET v == lower_expr(stmt.value, st, is)
            IN [state |-> v.state,
                instrs |-> Append(v.instrs, StoreLocal(stmt.name, v.operand))]
      [] stmt.kind = "ExprStmt" ->
            LET v == lower_expr(stmt.expr, st, is)
            IN [state |-> v.state, instrs |-> v.instrs]
      [] stmt.kind = "Return" ->
            LET v == lower_expr(stmt.expr, st, is)
            IN [state |-> v.state,
                instrs |-> Append(v.instrs, ReturnInstr(Some(v.operand)))]

ParamNames(func) == [k \in 1..Len(func.params) |-> func.params[k][2]]

----------------------------------------------------------------------------
(* codegen_tac.rs: the text is a sequence of lines, each line a string      *)

\* format!("{}", f) of an f64, for the float literals of the bounded
\* programs: a value without fractional part prints without one.
FloatDisplay(f) ==
    CASE f = "2.0" -> "2"
      [] OTHER -> f

\* v.join(sep)
RECURSIVE Join(_, _)
Join(v, sep) ==
    IF v = <<>> THEN ""
    ELSE IF Len(v) = 1 THEN v[1]
    ELSE v[1] \o sep \o Join(Tail(v), sep)

fmt_operand(o) ==
    CASE o.kind = "Temp" -> o.name
      [] o.kind = "Local" -> "%" \o o.name
      [] o.kind = "ConstInt" -> ToString(o.i)
      [] o.kind = "ConstFloat" -> FloatDisplay(o.f)
      [] o.kind = "ConstString" -> "\"" \o o.s \o "\""

\* A rendering that leaves StoreLocal instructions out of the text.
TacLineWithoutStores(in) ==
    CASE in.kind = "StoreLocal" -> ""
      [] in.kind = "Call" -> "  CALL " \o in.name
      [] in.kind = "Return" -> "  RET"
      [] in.kind = "BinOp" -> "  " \o in.dest \o " = " \o in.op

\* Lines 16-34: the line of one instruction.
TacLine(in) ==
    CASE in.kind = "StoreLocal" -> "  MOV %" \o in.name \o ", " \o fmt_operand(in.src)
      [] in.kind = "Call" ->
            LET a == Join([k \in 1..Len(in.args) |-> fmt_operand(in.args[k])], ", ")
            IN IF IsSome(in.dest)
               THEN "  " \o Unwrap(in.dest) \o " = CALL " \o in.name \o "(" \o a \o ")"
               ELSE "  CALL " \o in.name \o "(" \o a \o ")"
      [] in.kind = "Return" ->
            IF IsSome(in.src) THEN "  RET " \o fmt_operand(Unwrap(in.src)) ELSE "  RET"
      [] in.kind = "BinOp" ->
            "  " \o in.dest \o " = " \o fmt_operand(in.left) \o " " \o in.op \o " "
            \o fmt_operand(in.right)

\* A header that leaves the parameter names out.
TacHeaderWithoutParams(f) == <<".func " \o f.name \o "()", "{">>

\* Lines 8-10: the header and the opening brace.
TacHeader(f) == <<".func " \o f.name \o "(" \o Join(f.params, ", ") \o ")", "{">>

----------------------------------------------------------------------------
(* codegen_x64_windows.rs: the text is a sequence of lines, each line a     *)
(* record naming the instruction and its operands                           *)

\* "; function {}", "; data section" and the other comment lines.
Comment(text) == [asm |-> "comment", text |-> text]

\* "push {reg}"
Push(reg) == [asm |-> "push", reg |-> reg]

\* "pop {reg}"
Pop(reg) == [asm |-> "pop", reg |-> reg]

\* "mov {dst}, {src}" between registers.
MovReg(dst, src) == [asm |-> "mov", dst |-> dst, src |-> src]

\* "sub rsp, {n}"
SubRsp(n) == [asm |-> "sub rsp", n |-> n]

\* "mov {reg}, [rbp-{off}]"
LoadSlot(reg, off) == [asm |-> "load", reg |-> reg, off |-> off]

\* "mov {reg}, {i}"
LoadImm(reg, i) == [asm |-> "imm", reg |-> reg, i |-> i]

\* "mov [rbp-{off}], rax"
StoreSlot(off) == [asm |-> "store", reg |-> "rax", off |-> off]

\* "lea {reg}, [rel {label}] ; string {s}"
Lea(reg, label, s) == [asm |-> "lea", reg |-> reg, label |-> label, s |-> s]

\* "    {asmop}": add rax, rdx / sub rax, rdx / imul rax, rdx / cqo /
\* idiv rdx, or the operator's own name for any other operator.
Op(text) == [asm |-> "op", text |-> text]

\* "call {name}"
CallLine(name) == [asm |-> "call", name |-> name]

RetLine == [asm |-> "ret"]

\* "" (the empty line before the data section)
BlankLine == [asm |-> "blank"]

\* s.replace("\"", "\\\"") for the strings of the bounded programs: only the
\* string that is one quote holds a quote.
EscapeQuotes(s) == IF s = "\"" THEN "\\\"" ELSE s

\* "{lbl}: db \"{s}\",0"
Db(label, s) == [asm |-> "db", label |-> label, s |-> EscapeQuotes(s)]

\* format!("{}", crc32fast::hash(s.as_bytes())) for the strings of the
\* bounded programs (the IEEE CRC-32 of their bytes, in decimal).
Crc32Decimal(s) ==
    CASE s = "hi" -> "3633523372"
      [] s = "%d" -> "3824510809"
      [] OTHER -> "0"

\* format!("LSTR_{}", hash)
StringLabel(s) == "LSTR_" \o Crc32Decimal(s)

find_label_for_string(s) == StringLabel(s)

\* A pooling that numbers its labels by occurrence instead of deriving them
\* from the value.
PoolOperandNumbered(pool, op) ==
    IF op.kind = "ConstString"
    THEN MapInsert(pool, op.s, "LSTR_" \o ToString(Cardinality(DOMAIN pool)))
    ELSE pool

\* str_pool.entry(s).or_insert(lbl) when the operand is a ConstString.
PoolOperand(pool, op) ==
    IF op.kind = "ConstString" /\ op.s \notin DOMAIN pool
    THEN MapInsert(pool, op.s, StringLabel(op.s))
    ELSE pool

RECURSIVE PoolOperands(_, _)
PoolOperands(pool, ops) ==
    IF ops = <<>> THEN pool ELSE PoolOperands(PoolOperand(pool, Head(ops)), Tail(ops))

\* Lines 9-26: the string pool after the instructions is.
RECURSIVE PoolStrings(_, _)
PoolStrings(pool, is) ==
    IF is = <<>> THEN pool
    ELSE PoolStrings(
             (CASE Head(is).kind = "Call" -> PoolOperands(pool, Head(is).args)
                [] Head(is).kind = "BinOp" ->
                      PoolOperand(PoolOperand(pool, Head(is).left), Head(is).right)
                [] OTHER -> pool),
             Tail(is))

\* A slot assignment that gives a name a new offset each time it is seen.
AssignSlotEachTime(sl, n) ==
    [slots |-> MapInsert(sl.slots, n, sl.offset + 8), offset |-> sl.offset + 8]

\* if !slots.contains_key(n) { offset += 8; slots.insert(n, offset) }
AssignSlot(sl, n) ==
    IF n \in DOMAIN sl.slots THEN sl
    ELSE [slots |-> MapInsert(sl.slots, n, sl.offset + 8), offset |-> sl.offset + 8]

\* Lines 32-37: the parameters.
RECURSIVE AssignParamSlots(_, _)
AssignParamSlots(sl, params) ==
    IF params = <<>> THEN sl
    ELSE AssignParamSlots(AssignSlot(sl, Head(params)), Tail(params))

\* Lines 38-60: the StoreLocal targets and the BinOp and Call destinations.
RECURSIVE AssignInstrSlots(_, _)
AssignInstrSlots(sl, is) ==
    IF is = <<>> THEN sl
    ELSE AssignInstrSlots(
             (CASE Head(is).kind = "StoreLocal" -> AssignSlot(sl, Head(is).name)
                [] Head(is).kind = "BinOp" -> AssignSlot(sl, Head(is).dest)
                [] Head(is).kind = "Call" /\ IsSome(Head(is).dest) ->
                      AssignSlot(sl, Unwrap(Head(is).dest))
                [] OTHER -> sl),
             Tail(is))

\* Lines 63-64.
FrameSize(off) ==
    LET rounded == ((off + 15) \div 16) * 16
    IN IF rounded < 32 THEN 32 ELSE rounded

\* What the functions that write text return: the text afterwards, or a
\* panic where slots.get(..).unwrap() found no slot.
Emitted(o) == [ok |-> TRUE, out |-> o]

Panicked(o) == [ok |-> FALSE, out |-> o]

emit_load_operand_to_reg(o, op, sl, reg) ==
    CASE op.kind \in {"Temp", "Local"} ->
            IF op.name \in DOMAIN sl THEN Emitted(Append(o, LoadSlot(reg, sl[op.name])))
            ELSE Panicked(o)
      [] op.kind = "ConstInt" -> Emitted(Append(o, LoadImm(reg, op.i)))
      [] op.kind = "ConstFloat" ->
            Emitted(o \o <<Comment("mov " \o reg \o " <- float " \o FloatDisplay(op.f)
                                   \o " (not implemented)"),
                           LoadImm(reg, 0)>>)
      [] op.kind = "ConstString" ->
            Emitted(Append(o, Lea(reg, find_label_for_string(op.s), op.s)))

emit_load_operand(o, op, sl) ==
    CASE op.kind \in {"Temp", "Local"} ->
            IF op.name \in DOMAIN sl THEN Emitted(Append(o, LoadSlot("rax", sl[op.name])))
            ELSE Panicked(o)
      [] op.kind = "ConstInt" -> Emitted(Append(o, LoadImm("rax", op.i)))
      [] op.kind = "ConstFloat" ->
            Emitted(o \o <<Comment("load float " \o FloatDisplay(op.f)
                                   \o " into rax (not implemented)"),
                           LoadImm("rax", 0)>>)
      [] op.kind = "ConstString" ->
            Emitted(Append(o, Lea("rax", find_label_for_string(op.s), op.s)))

\* The store to a destination's slot: slots.get(d).unwrap(), then the line.
StoreTo(r, sl, d) ==
    IF ~r.ok THEN r
    ELSE IF d \in DOMAIN sl THEN Emitted(Append(r.out, StoreSlot(sl[d])))
    ELSE Panicked(r.out)

\* Lines 85-91: the lines of an operator.
AsmOp(op) ==
    CASE op = "+" -> <<Op("add rax, rdx")>>
      [] op = "-" -> <<Op("sub rax, rdx")>>
      [] op = "*" -> <<Op("imul rax, rdx")>>
      [] op = "/" -> <<Op("cqo"), Op("idiv rdx")>>
      [] OTHER -> <<Op(op)>>

\* The argument registers with the first two exchanged.
ArgRegsExchanged == <<"rdx", "rcx", "r8", "r9">>

ArgRegs == <<"rcx", "rdx", "r8", "r9">>

\* Lines 99-107: argument k (1-based; i = k - 1 in the source) and the ones
\* after it.
RECURSIVE EmitArgs(_, _, _, _)
EmitArgs(r, as, k, sl) ==
    IF ~r.ok \/ k > Len(as) THEN r
    ELSE IF k - 1 < 4
    THEN EmitArgs(emit_load_operand_to_reg(r.out, as[k], sl, ArgRegs[k]), as, k + 1, sl)
    ELSE LET l == emit_load_operand(r.out, as[k], sl)
         IN EmitArgs(IF l.ok THEN Emitted(Append(l.out, Push("rax"))) ELSE l, as, k + 1, sl)

\* A return sequence that does not restore rsp from rbp.
LeaveWithoutRestore == <<Pop("rbp"), RetLine>>

\* mov rsp, rbp / pop rbp / ret
Leave == <<MovReg("rsp", "rbp"), Pop("rbp"), RetLine>>

\* Lines 74-127: the text after one instruction is emitted.
EmitInstr(o, in, sl) ==
    CASE in.kind = "StoreLocal" -> StoreTo(emit_load_operand(o, in.src, sl), sl, in.name)
      [] in.kind = "BinOp" ->
            LET l == emit_load_operand(o, in.left, sl)
                r == IF l.ok THEN emit_load_operand_to_reg(l.out, in.right, sl, "rdx") ELSE l
            IN StoreTo(IF r.ok THEN Emitted(r.out \o AsmOp(in.op)) ELSE r, sl, in.dest)
      [] in.kind = "Call" ->
            LET a == EmitArgs(Emitted(o), in.args, 1, sl)
                c == IF a.ok THEN Emitted(Append(a.out, CallLine(in.name))) ELSE a
            IN IF IsSome(in.dest) THEN StoreTo(c, sl, Unwrap(in.dest)) ELSE c
      [] in.kind = "Return" ->
            LET l == IF IsSome(in.src) THEN emit_load_operand(o, Unwrap(in.src), sl)
                     ELSE Emitted(o)
            IN IF l.ok THEN Emitted(l.out \o Leave) ELSE l

\* Lines 136-141: the data section for the pool's entries taken in the
\* order ord (a HashMap is iterated in no particular order).
DataSection(pool, ord) ==
    IF DOMAIN pool = {} THEN <<>>
    ELSE <<BlankLine, Comment("data section")>>
         \o [k \in 1..Len(ord) |-> Db(pool[ord[k]], ord[k])]

\* The orders a set can be iterated in.
Orders(S) ==
    {q \in [1..Cardinality(S) -> S] : \A i, j \in 1..Cardinality(S) : q[i] = q[j] => i = j}

----------------------------------------------------------------------------
(* codegen.rs: the interpreter of the syntax tree.  A Value is a record     *)
(* with a "kind" field; a Result is a record with an "ok" field; a float is *)
(* kept as the text of its literal and float arithmetic as the text of the  *)
(* operation                                                                *)

IntValue(i) == [kind |-> "Int", i |-> i]

FloatValue(f) == [kind |-> "Float", f |-> f]

CharValue(c) == [kind |-> "Char", c |-> c]

VoidValue == [kind |-> "Void"]

\* Ok(v) with the locals as the evaluation left them.
EvalOk(v, ls) == [ok |-> TRUE, v |-> v, locals |-> ls]

\* Err(msg); a Rust panic (integer division by zero) is msg = "panic".
EvalErr(msg, ls) == [ok |-> FALSE, msg |-> msg, locals |-> ls]

Abs(i) == IF i < 0 THEN -i ELSE i

\* i64 division as Rust and idiv compute it: the quotient truncated toward
\* zero (b # 0).
TruncDiv(a, b) ==
    IF (a < 0) = (b < 0) THEN Abs(a) \div Abs(b) ELSE -(Abs(a) \div Abs(b))

\* Lines 129-134: the operators on two Int values.
IntBinary(op, a, b, ls) ==
    CASE op = "Add" -> EvalOk(IntValue(a + b), ls)
      [] op = "Sub" -> EvalOk(IntValue(a - b), ls)
      [] op = "Mul" -> EvalOk(IntValue(a * b), ls)
      [] op = "Div" -> IF b = 0 THEN EvalErr("panic", ls)
                       ELSE EvalOk(IntValue(TruncDiv(a, b)), ls)

\* Lines 135-159: the operators when one operand at least is a Float; the
\* Int operand is converted first.
FloatText(v) == IF v.kind = "Int" THEN ToString(v.i) ELSE v.f

FloatBinary(op, l, r, ls) ==
    EvalOk(FloatValue("(" \o FloatText(l) \o " " \o op \o " " \o FloatText(r) \o ")"), ls)

\* format!("{}", iv).len() for an i64.
RECURSIVE DecimalLen(_)
DecimalLen(i) ==
    IF i < 0 THEN 1 + DecimalLen(-i)
    ELSE IF i < 10 THEN 1
    ELSE 1 + DecimalLen(i \div 10)

\* Lines 189-226 for the format strings of the bounded programs: "%d"
\* prints its Int argument if there is one, any other string is printed as
\* it is; the value is the number of bytes printed.
PrintfFormat(fmt, vals, ls) ==
    IF fmt = "%d"
    THEN IF vals = <<>> THEN EvalOk(IntValue(0), ls)
         ELSE IF vals[1].kind = "Int" THEN EvalOk(IntValue(DecimalLen(vals[1].i)), ls)
         ELSE EvalErr("printf: %d with non-int argument", ls)
    ELSE EvalOk(IntValue(Len(fmt)), ls)

\* Lines 59-72: the locals a call starts with.
BindParams(func, as) ==
    [n \in {func.params[k][2] : k \in 1..Len(func.params)} |->
        LET k == CHOOSE j \in 1..Len(func.params) :
                     /\ func.params[j][2] = n
                     /\ \A j2 \in (j + 1)..Len(func.params) : func.params[j2][2] # n
        IN IF k <= Len(as) THEN as[k]
           ELSE CASE func.params[k][1] = "Int" -> IntValue(0)
                  [] func.params[k][1] = "Float" -> FloatValue("0.0")
                  [] func.params[k][1] = "Char" -> CharValue("\\0")
                  [] OTHER -> VoidValue]

RECURSIVE eval_expr(_, _, _)
RECURSIVE EvalArgs(_, _, _, _, _)
RECURSIVE ExecuteStmts(_, _, _, _)

\* eval_expr of args[k..] in order, the values appended to vals; stops at
\* the first Err (the ? operator).
EvalArgs(as, k, vals, ls, prog) ==
    IF k > Len(as) THEN [ok |-> TRUE, vals |-> vals, locals |-> ls]
    ELSE LET r == eval_expr(as[k], ls, prog)
         IN IF r.ok THEN EvalArgs(as, k + 1, Append(vals, r.v), r.locals, prog)
            ELSE r

\* Lines 75-81: the statements from k on; the value of the first return
\* that occurs, Void when none does.
ExecuteStmts(stmts, k, ls, prog) ==
    IF k > Len(stmts) THEN EvalOk(VoidValue, ls)
    ELSE LET st == stmts[k]
             r == eval_expr(IF st.kind = "VarDecl" THEN st.value ELSE st.expr, ls, prog)
         IN IF ~r.ok THEN r
            ELSE IF st.kind = "Return" THEN r
            ELSE IF st.kind = "VarDecl"
            THEN ExecuteStmts(stmts, k + 1, MapInsert(r.locals, st.name, r.v), prog)
            ELSE ExecuteStmts(stmts, k + 1, r.locals, prog)

\* Lines 56-82.
execute_function(func, prog, as) ==
    ExecuteStmts(func.body.stmts, 1, BindParams(func, as), prog)

\* Lines 103-242.
eval_expr(e, ls, prog) ==
    CASE e.kind = "Number" -> EvalOk(IntValue(e.n), ls)
      [] e.kind = "FloatNumber" -> EvalOk(FloatValue(e.f), ls)
      [] e.kind = "CharLiteral" -> EvalOk(CharValue(e.c), ls)
      [] e.kind = "StringLiteral" -> EvalOk(VoidValue, ls)
      [] e.kind = "Ident" ->
            IF e.name \in DOMAIN ls THEN EvalOk(ls[e.name], ls)
            ELSE EvalErr("Undefined variable at runtime: " \o e.name, ls)
      [] e.kind = "Unary" ->
            LET r == eval_expr(e.expr, ls, prog)
            IN IF ~r.ok THEN r
               ELSE IF e.op = "Neg" /\ r.v.kind = "Int"
               THEN EvalOk(IntValue(-r.v.i), r.locals)
               ELSE IF e.op = "Neg" /\ r.v.kind = "Float"
               THEN EvalOk(FloatValue("-" \o r.v.f), r.locals)
               ELSE IF e.op = "Not" /\ r.v.kind = "Int"
               THEN EvalOk(IntValue(IF r.v.i = 0 THEN 1 ELSE 0), r.locals)
               ELSE EvalErr("Unsupported unary operation or type", r.locals)
      [] e.kind = "Binary" ->
            LET l == eval_expr(e.left, ls, prog)
            IN IF ~l.ok THEN l
               ELSE LET r == eval_expr(e.right, l.locals, prog)
                    IN IF ~r.ok THEN r
                       ELSE IF l.v.kind = "Int" /\ r.v.kind = "Int"
                       THEN IntBinary(e.op, l.v.i, r.v.i, r.locals)
                       ELSE IF l.v.kind \in {"Int", "Float"} /\ r.v.kind \in {"Int", "Float"}
                       THEN FloatBinary(e.op, l.v, r.v, r.locals)
                       ELSE EvalErr("Unsupported binary operand types", r.locals)
      [] e.kind = "Assign" ->
            LET r == eval_expr(e.value, ls, prog)
            IN IF ~r.ok THEN r
               ELSE EvalOk(r.v, MapInsert(r.locals, e.name, r.v))
      [] e.kind = "Call" ->
            IF e.name = "printf"
            THEN IF e.args = <<>>
                 THEN EvalErr("printf requires at least a format string", ls)
                 ELSE IF e.args[1].kind # "StringLiteral"
                 THEN EvalErr("printf: first argument must be a string literal", ls)
                 ELSE LET a == EvalArgs(e.args, 2, <<>>, ls, prog)
                      IN IF ~a.ok THEN a
                         ELSE PrintfFormat(e.args[1].s, a.vals, a.locals)
            ELSE IF \E k \in 1..Len(prog.functions) : prog.functions[k].name = e.name
            THEN LET f == prog.functions[CHOOSE k \in 1..Len(prog.functions) :
                              /\ prog.functions[k].name = e.name
                              /\ \A k2 \in 1..(k - 1) : prog.functions[k2].name # e.name]
                     a == EvalArgs(e.args, 1, <<>>, ls, prog)
                 IN IF ~a.ok THEN a
                    ELSE LET c == execute_function(f, prog, a.vals)
                         IN IF c.ok THEN EvalOk(c.v, a.locals)
                            ELSE EvalErr(c.msg, a.locals)
            ELSE EvalErr("Unknown function called at runtime: " \o e.name, ls)

\* Lines 85-101: Ok(Some(v)) for a return, Ok(None) otherwise, as the field
\* returned.
execute_stmt(st, ls, prog) ==
    LET r == eval_expr(IF st.kind = "VarDecl" THEN st.value ELSE st.expr, ls, prog)
    IN IF ~r.ok THEN [ok |-> FALSE, msg |-> r.msg, returned |-> None, locals |-> r.locals]
       ELSE CASE st.kind = "VarDecl" ->
                   [ok |-> TRUE, returned |-> None,
                    locals |-> MapInsert(r.locals, st.name, r.v)]
              [] st.kind = "ExprStmt" ->
                   [ok |-> TRUE, returned |-> None, locals |-> r.locals]
              [] st.kind = "Return" ->
                   [ok |-> TRUE, returned |-> Some(r.v), locals |-> r.locals]

----------------------------------------------------------------------------
(* The processor that runs the text of codegen_x64_windows.rs: what each    *)
(* emitted line does to the registers, to the frame's slots [rbp-off] and   *)
(* to the stack, following the x86-64 instruction set                       *)

RegNames == {"rax", "rcx", "rdx", "r8", "r9"}

\* The frame pointer of the caller, and a frame pointer set from rsp when
\* rsp was depth bytes below its value at entry.
CallerFrame == [of |-> "caller"]

OwnFrame(depth) == [of |-> "callee", at |-> depth]

\* The function is entered with the arguments in the registers the emitter
\* itself uses for the first four arguments of a call; no slot is written;
\* rsp (counted in bytes below its value at entry) points to the return
\* address and rbp is the caller's.
CpuEntered(as) ==
    [status |-> "running",
     ip |-> 1,
     regs |-> [r \in RegNames |->
                  IF \E k \in 1..Len(as) : k <= 4 /\ ArgRegs[k] = r
                  THEN as[CHOOSE k \in 1..Len(as) : k <= 4 /\ ArgRegs[k] = r]
                  ELSE 0],
     mem |-> EmptyMap,
     pushed |-> <<>>,
     unwritten |-> {},
     rsp |-> 0,
     rbp |-> CallerFrame,
     saved |-> EmptyMap]

CpuAdvance(c) == [c EXCEPT !.ip = c.ip + 1]

\* The lines the emitter writes after "    ": cqo replaces rdx by the sign
\* of rax; idiv rdx divides rdx:rax by rdx and faults (#DE) on a zero
\* divisor or a quotient that does not fit; a line that is no instruction
\* (the bare operator name) makes the text invalid.
CpuOp(c, text) ==
    CASE text = "add rax, rdx" -> CpuAdvance([c EXCEPT !.regs["rax"] = c.regs["rax"] + c.regs["rdx"]])
      [] text = "sub rax, rdx" -> CpuAdvance([c EXCEPT !.regs["rax"] = c.regs["rax"] - c.regs["rdx"]])
      [] text = "imul rax, rdx" -> CpuAdvance([c EXCEPT !.regs["rax"] = c.regs["rax"] * c.regs["rdx"]])
      [] text = "cqo" -> CpuAdvance([c EXCEPT !.regs["rdx"] = IF c.regs["rax"] < 0 THEN -1 ELSE 0])
      [] text = "idiv rdx" ->
            IF c.regs["rdx"] = 0 \/ c.regs["rdx"] # (IF c.regs["rax"] < 0 THEN -1 ELSE 0)
            THEN [c EXCEPT !.status = "fault"]
            ELSE CpuAdvance([c EXCEPT !.regs["rax"] = TruncDiv(c.regs["rax"], c.regs["rdx"]),
                                      !.regs["rdx"] = 0])
      [] OTHER -> [c EXCEPT !.status = "invalid"]

\* push: rsp goes down by 8 and the value is stored there.
CpuPush(c, val) ==
    [c EXCEPT !.rsp = c.rsp + 8, !.saved = MapInsert(c.saved, c.rsp + 8, val)]

\* One line executed.  v is the value the environment supplies where the
\* text does not determine one: the content of a slot read before any
\* write, the rax a called function leaves, the address of a string.  A
\* stack pointer taken from a frame pointer that is not this function's, a
\* pop of a place nothing was pushed to, and a ret with rsp away from the
\* return address leave the function's frame: the run is a fault.
CpuExec(c, line, v) ==
    CASE line.asm \in {"comment", "blank", "db"} -> CpuAdvance(c)
      [] line.asm = "sub rsp" -> CpuAdvance([c EXCEPT !.rsp = c.rsp + line.n])
      [] line.asm = "mov" ->
            IF line.dst = "rbp" THEN CpuAdvance([c EXCEPT !.rbp = OwnFrame(c.rsp)])
            ELSE IF c.rbp.of = "callee" THEN CpuAdvance([c EXCEPT !.rsp = c.rbp.at])
            ELSE [c EXCEPT !.status = "fault"]
      [] line.asm = "pop" ->
            IF c.rsp \in DOMAIN c.saved
            THEN CpuAdvance([c EXCEPT !.rbp = c.saved[c.rsp], !.rsp = c.rsp - 8])
            ELSE [c EXCEPT !.status = "fault"]
      [] line.asm = "push" ->
            IF line.reg = "rbp" THEN CpuAdvance(CpuPush(c, c.rbp))
            ELSE CpuAdvance(CpuPush([c EXCEPT !.pushed = Append(c.pushed, c.regs[line.reg])],
                                    c.regs[line.reg]))
      [] line.asm = "load" ->
            IF line.off \in DOMAIN c.mem
            THEN CpuAdvance([c EXCEPT !.regs[line.reg] = c.mem[line.off]])
            ELSE CpuAdvance([c EXCEPT !.regs[line.reg] = v,
                                      !.unwritten = c.unwritten \cup {line.off}])
      [] line.asm = "imm" -> CpuAdvance([c EXCEPT !.regs[line.reg] = line.i])
      [] line.asm = "lea" -> CpuAdvance([c EXCEPT !.regs[line.reg] = v])
      [] line.asm = "store" ->
            CpuAdvance([c EXCEPT !.mem = MapInsert(c.mem, line.off, c.regs["rax"])])
      [] line.asm = "op" -> CpuOp(c, line.text)
      [] line.asm = "call" -> CpuAdvance([c EXCEPT !.regs["rax"] = v])
      [] line.asm = "ret" ->
            IF c.rsp = 0 THEN [c EXCEPT !.status = "returned"]
            ELSE [c EXCEPT !.status = "fault"]

----------------------------------------------------------------------------
(* The bounded inputs *)

MaxStmts == 2

MaxArgs == 2

MaxParams == 3

MaxScopes == 3

Types == {"Int", "Float"}

\* All sequences over S of length at most n.
RECURSIVE SeqsUpTo(_, _)
SeqsUpTo(S, n) ==
    IF n = 0 THEN {<<>>}
    ELSE LET shorter == SeqsUpTo(S, n - 1)
         IN shorter \cup {Append(q, x) : q \in {r \in shorter : Len(r) = n - 1}, x \in S}

\* A call of g with k arguments.
CallG(k) == Call("g", [i \in 1..k |-> Number(1)])

\* The statements the bodies under analysis are built from: declarations
\* (well-typed, ill-typed, self-referencing, initialised by a call), calls of
\* g with 0..MaxArgs arguments in each position, a call of an unregistered
\* function, an assignment, returns of each literal type, a nested
\* expression, and a function name used as an identifier.
StmtPool ==
    {VarDecl("Int", "b", Number(1)),
     VarDecl("Float", "b", Ident("a")),
     VarDecl("Int", "b", Ident("b")),
     ExprStmt(Call("printf", <<StringLiteral("hi"), Ident("b")>>)),
     ExprStmt(Assign("b", Binary("Add", Ident("b"), Number(1)))),
     ExprStmt(Ident("g")),
     Return(Number(1)),
     Return(FloatNumber("2.5")),
     Return(Ident("b")),
     Return(Binary("Sub", Unary("Neg", Ident("a")), CallG(0)))}
    \cup {VarDecl("Int", "b", CallG(k)) : k \in 0..MaxArgs}
    \cup {ExprStmt(CallG(k)) : k \in 0..MaxArgs}
    \cup {Return(CallG(k)) : k \in 0..MaxArgs}

\* The statements that may precede the last one of a body: a declaration of
\* b (well-typed or not), a return (what follows it is still processed), an
\* assignment to b and a call of g.
PrefixPool ==
    {VarDecl("Int", "b", Number(1)),
     VarDecl("Float", "b", Ident("a")),
     Return(FloatNumber("2.5")),
     ExprStmt(Assign("b", Binary("Add", Ident("b"), Number(1)))),
     ExprStmt(CallG(1))}

\* The bodies of at most MaxStmts statements: any statement of StmtPool,
\* preceded by statements of PrefixPool.
Bodies ==
    {<<>>} \cup {Append(pre, s) : pre \in SeqsUpTo(PrefixPool, MaxStmts - 1), s \in StmtPool}

\* The functions whose body varies.
Callers == {Function("f", rt, <<<<"Int", "a">>>>, b) : rt \in Types, b \in Bodies}

\* The functions whose parameter list varies.
ParamLists == SeqsUpTo({<<"Int", "a">>, <<"Float", "a">>, <<"Int", "b">>}, MaxParams)

SigFunctions ==
    {Function("f", rt, ps, <<Return(Ident("a"))>>) : rt \in Types, ps \in ParamLists}

\* The functions put before or after them: g with zero, one or two
\* parameters, and a second definition of f.
Callees ==
    {Function("g", rt, ps, <<Return(Binary("Add", Ident("a"), Ident("b")))>>) :
        rt \in Types,
        ps \in {<<>>, <<<<"Int", "a">>>>, <<<<"Int", "a">>, <<"Int", "b">>>>}}
    \cup {Function("f", rt, <<>>, <<Return(Binary("Add", Ident("a"), Ident("b")))>>) :
             rt \in Types}

Programs ==
    LET cores == Callers \cup SigFunctions
    IN {Program(<<c>>) : c \in cores}
       \cup {Program(<<c, g>>) : c \in cores, g \in Callees}
       \cup {Program(<<g, c>>) : c \in cores, g \in Callees}

----------------------------------------------------------------------------
(* The bounded inputs of the back end *)

MaxCallArgs == 5

\* A call of g with the arguments 1, ..., k.
CallGWith(k) == Call("g", [i \in 1..k |-> Number(i)])

Printf(fmt_args) == Call("printf", fmt_args)

\* The expressions the bodies of the back end are built from: literals and
\* names (a parameter, a name like a temporary's, the function's own name, a
\* string), the four operators on literals and on names, a quotient with a
\* negative dividend, a nested product, assignments used as operands, unary
\* operators, and calls of g with 0..MaxCallArgs arguments.
BackExprs ==
    {Number(6), Ident("a"), Ident("t0"), Ident("x"), Ident("f"), StringLiteral("hi"),
     FloatNumber("2.5"),
     Binary("Add", Ident("a"), Number(1)),
     Binary("Add", Ident("x"), Number(1)),
     Binary("Add", Ident("t0"), Ident("x")),
     Binary("Sub", Number(1), Number(8)),
     Binary("Mul", Ident("a"), Ident("a")),
     Binary("Div", Number(7), Number(2)),
     Binary("Div", Ident("a"), Number(2)),
     Binary("Div", Binary("Sub", Number(1), Number(8)), Number(2)),
     Binary("Mul", Binary("Add", Ident("x"), Number(2)), Binary("Sub", Ident("x"), Number(1))),
     Binary("Add", Assign("x", Number(1)), Assign("x", Number(2))),
     Binary("Add", Ident("x"), Assign("x", Number(5))),
     Binary("Sub", Assign("x", Number(5)), Ident("x")),
     Binary("Add", StringLiteral("hi"), Number(1)),
     Unary("Neg", Ident("x")),
     Unary("Not", Number(0)),
     Printf(<<StringLiteral("hi")>>),
     Printf(<<StringLiteral("%d"), StringLiteral("hi")>>),
     Call("g", <<Ident("a"), Ident("x")>>)}
    \cup {CallGWith(k) : k \in 0..MaxCallArgs}

\* The statements that may come first in a body of two: declarations of x
\* and of a variable named like the first temporary, and a call passing a
\* string.
BackFirstStmts ==
    {VarDecl("Int", "x", Number(3)),
     VarDecl("Int", "x", Binary("Add", Number(1), Number(2))),
     VarDecl("Int", "t0", Number(4)),
     ExprStmt(Printf(<<StringLiteral("hi")>>))}

BackBodies ==
    {<<Return(e)>> : e \in BackExprs}
    \cup {<<s, Return(e)>> : s \in BackFirstStmts, e \in BackExprs}
    \cup {<<s, VarDecl("Int", "y", e)>> : s \in BackFirstStmts, e \in BackExprs}

BackParamLists == {<<>>, <<<<"Int", "a">>>>, <<<<"Int", "a">>, <<"Int", "t0">>>>}

\* int add(int a, int b) { int c = a + b; return c; }
AddFunction ==
    Function("add", "Int", <<<<"Int", "a">>, <<"Int", "b">>>>,
             <<VarDecl("Int", "c", Binary("Add", Ident("a"), Ident("b"))),
               Return(Ident("c"))>>)

BackFunctions ==
    {AddFunction} \cup {Function("f", "Int", ps, b) : ps \in BackParamLists, b \in BackBodies}

BackPrograms == {Program(<<f>>) : f \in BackFunctions}

\* The values a caller passes.
ArgValues == {-9, 4}

\* The values a stack slot nobody wrote, or the rax a callee leaves, may hold.
AnyValues == {0, 5}

----------------------------------------------------------------------------
(* The bounded inputs for declarations and scopes *)

\* The initializers of a declaration of b in f(int a): a literal of each
\* type, a string, a unary expression, names that resolve to a parameter, to
\* the variable itself, to a function and to nothing, calls of a registered
\* and of an unregistered function, binary expressions whose operand types
\* agree and disagree, and assignments to the parameter and to the variable.
DeclInits ==
    {Number(1), FloatNumber("2.5"), CharLiteral("A"), StringLiteral("hi"),
     Unary("Neg", Number(1)),
     Ident("a"), Ident("b"), Ident("g"), Ident("z"),
     CallG(0), Call("h", <<>>),
     Binary("Add", Number(1), FloatNumber("2.5")),
     Binary("Add", Number(1), Number(2)),
     Binary("Mul", FloatNumber("2.5"), FloatNumber("2.5")),
     Assign("a", FloatNumber("2.5")),
     Assign("b", Number(1))}

DeclTypes == {"Int", "Float", "Char"}

\* int f(int a) { ty b = e; }
Declaring(ty, e) == Function("f", "Int", <<<<"Int", "a">>>>, <<VarDecl(ty, "b", e)>>)

\* float g() { return 2.5; }
FloatG == Function("g", "Float", <<>>, <<Return(FloatNumber("2.5"))>>)

\* The functions that follow f in a program of two: h with or without a
\* parameter a, declaring b or a itself or reading the b or the a of f.
Followers ==
    {Function("h", "Int", ps, b) :
        ps \in {<<>>, <<<<"Int", "a">>>>},
        b \in {<<VarDecl("Int", "b", Number(2))>>,
               <<VarDecl("Float", "a", FloatNumber("2.5"))>>,
               <<Return(Ident("b"))>>,
               <<Return(Ident("a"))>>,
               <<VarDecl("Int", "b", Number(2)), Return(Ident("b"))>>}}

\* int f(int a) { return 1; int b = g(a + 1, a - 2); }
ReturnThenCall ==
    Function("f", "Int", <<<<"Int", "a">>>>,
             <<Return(Number(1)),
               VarDecl("Int", "b",
                       Call("g", <<Binary("Add", Ident("a"), Number(1)),
                                   Binary("Sub", Ident("a"), Number(2))>>))>>)

\* int h(int c, int a) { a = (a + 1) * (c - 2); return -a; }
AssignThenReturn ==
    Function("h", "Int", <<<<"Int", "c">>, <<"Int", "a">>>>,
             <<ExprStmt(Assign("a", Binary("Mul", Binary("Add", Ident("a"), Number(1)),
                                                  Binary("Sub", Ident("c"), Number(2))))),
               Return(Unary("Neg", Ident("a")))>>)

DeclPrograms ==
    {Program(<<Declaring(ty, e)>>) : ty \in DeclTypes, e \in DeclInits}
    \cup {Program(<<FloatG, Declaring(ty, e)>>) : ty \in DeclTypes, e \in DeclInits}
    \cup {Program(<<Declaring("Int", Number(1)), h>>) : h \in Followers}
    \cup {Program(<<ReturnThenCall>>), Program(<<AssignThenReturn>>),
          Program(<<ReturnThenCall, AssignThenReturn>>),
          Program(<<AssignThenReturn, ReturnThenCall>>)}

----------------------------------------------------------------------------
(* The bounded inputs of the emitters called on their own *)

MaxUnitInstrs == 3

\* The instructions the units are built from: a store, calls with and
\* without a destination (one with a fifth argument), returns with and
\* without an operand, and a BinOp.
UnitInstrPool ==
    {StoreLocal("x", ConstInt(1)),
     CallInstr(None, "g", <<>>),
     CallInstr(Some("t0"), "g", <<Local("a"), ConstString("hi")>>),
     CallInstr(None, "g", [k \in 1..5 |-> ConstInt(k)]),
     ReturnInstr(None),
     ReturnInstr(Some(Local("a"))),
     BinOp("t0", "+", Local("a"), ConstInt(2))}

IrUnits ==
    {FunctionIR("f", ps, is) :
        ps \in {<<>>, <<"a", "b">>}, is \in SeqsUpTo(UnitInstrPool, MaxUnitInstrs)}

----------------------------------------------------------------------------
(* analyze and lower_program, one loop iteration per step *)

NumFunctions == Len(program.functions)

CurFunction == program.functions[fi]

Idle == [op |-> "none"]

\* Nothing of the back end has run.
BackIdle ==
    /\ tac = <<>>
    /\ str_pool = EmptyMap
    /\ slots = EmptyMap
    /\ offset = 0
    /\ frame_size = 0
    /\ out = <<>>
    /\ call_args = <<>>
    /\ cpu = [status |-> "off"]
    /\ locals = EmptyMap
    /\ ret = None

Init ==
    /\ program \in Programs
    /\ pc = "pass1"
    /\ symbols = SymbolTableNew
    /\ errors = <<>>
    /\ fi = 1
    /\ si = 1
    /\ result = None
    /\ state = [tmp |-> 0]
    /\ instrs = <<>>
    /\ res = <<>>
    /\ run = 1
    /\ res1 = None
    /\ last = Idle
    /\ BackIdle

\* semantic.rs 49-72: one iteration of the signature loop.
Pass1 ==
    /\ pc = "pass1"
    /\ LET r == Pass1Function(CurFunction, symbols)
       IN /\ symbols' = r.table
          /\ errors' = PushAll(errors, r.errs)
    /\ IF fi < NumFunctions
       THEN fi' = fi + 1 /\ pc' = pc
       ELSE fi' = 1 /\ pc' = "pass2"
    /\ UNCHANGED <<program, si, result, state, instrs, res, run, res1, last, back>>

\* semantic.rs 76-82: enter the function's scope and declare its parameters.
EnterFunction ==
    /\ pc = "pass2"
    /\ LET r == DeclareParams(CurFunction, 1, enter_scope(symbols))
       IN /\ symbols' = r.table
          /\ errors' = PushAll(errors, r.errs)
    /\ si' = 1
    /\ pc' = "body"
    /\ UNCHANGED <<program, fi, result, state, instrs, res, run, res1, last, back>>

\* semantic.rs 85-87: one iteration of the statement loop.
AnalyzeStmt ==
    /\ pc = "body"
    /\ si <= Len(CurFunction.body.stmts)
    /\ LET r == analyze_stmt(CurFunction.body.stmts[si], symbols, CurFunction.name)
       IN /\ symbols' = r.table
          /\ errors' = PushAll(errors, r.errs)
    /\ si' = si + 1
    /\ UNCHANGED <<program, pc, fi, result, state, instrs, res, run, res1, last, back>>

\* semantic.rs 89: leave the function's scope; next function or the end.
LeaveFunction ==
    /\ pc = "body"
    /\ si > Len(CurFunction.body.stmts)
    /\ symbols' = leave_scope(symbols)
    /\ IF fi < NumFunctions
       THEN fi' = fi + 1 /\ pc' = "pass2"
       ELSE fi' = fi /\ pc' = "return"
    /\ UNCHANGED <<program, errors, si, result, state, instrs, res, run, res1, last, back>>

\* semantic.rs 92-96: analyze returns.
AnalyzeReturn ==
    /\ pc = "return"
    /\ result' = Some(AnalyzeResult(errors))
    /\ pc' = "analyzed"
    /\ UNCHANGED <<program, symbols, errors, fi, si, state, instrs, res, run, res1, last, back>>

\* lower.rs 92-94: lower_program, a public function of the library, is called
\* on the program whatever analyze returned (main.rs 56-65 calls it after Ok
\* only: the states with result = Some("Ok")), and once more after its own
\* first return.
LowerProgram ==
    /\ \/ pc = "analyzed" /\ run' = 1 /\ res1' = res1
       \/ pc = "lowered" /\ run' = 2 /\ res1' = Some(res)
    /\ res' = <<>>
    /\ fi' = 1
    /\ pc' = "lower"
    /\ UNCHANGED <<program, symbols, errors, si, result, state, instrs, last, back>>

\* lower.rs 95-96: a function's fresh LowerState and instruction vector.
LowerFunction ==
    /\ pc = "lower"
    /\ fi <= NumFunctions
    /\ state' = LowerStateNew
    /\ instrs' = <<>>
    /\ si' = 1
    /\ pc' = "lower_body"
    /\ UNCHANGED <<program, symbols, errors, fi, result, res, run, res1, last, back>>

\* lower.rs 98-112: one iteration of the statement loop.
LowerStmt ==
    /\ pc = "lower_body"
    /\ si <= Len(CurFunction.body.stmts)
    /\ LET r == lower_stmt(CurFunction.body.stmts[si], state, instrs)
       IN /\ state' = r.state
          /\ instrs' = r.instrs
    /\ si' = si + 1
    /\ UNCHANGED <<program, pc, symbols, errors, fi, result, res, run, res1, last, back>>

\* lower.rs 115-116: the function's FunctionIR is pushed.
LowerFunctionEnd ==
    /\ pc = "lower_body"
    /\ si > Len(CurFunction.body.stmts)
    /\ res' = Append(res, FunctionIR(CurFunction.name, ParamNames(CurFunction), instrs))
    /\ fi' = fi + 1
    /\ pc' = "lower"
    /\ UNCHANGED <<program, symbols, errors, si, result, state, instrs, run, res1, last, back>>

\* lower.rs 118: lower_program returns.
LowerReturn ==
    /\ pc = "lower"
    /\ fi > NumFunctions
    /\ pc' = IF run = 1 THEN "lowered" ELSE "done"
    /\ UNCHANGED <<program, symbols, errors, fi, si, result, state, instrs, res, run, res1,
                   last, back>>

Next ==
    \/ Pass1
    \/ EnterFunction
    \/ AnalyzeStmt
    \/ LeaveFunction
    \/ AnalyzeReturn
    \/ LowerProgram
    \/ LowerFunction
    \/ LowerStmt
    \/ LowerFunctionEnd
    \/ LowerReturn

Spec == Init /\ [][Next]_vars

\* analyze and lower_program on the programs of declarations.
DeclInit ==
    /\ program \in DeclPrograms
    /\ pc = "pass1"
    /\ symbols = SymbolTableNew
    /\ errors = <<>>
    /\ fi = 1
    /\ si = 1
    /\ result = None
    /\ state = [tmp |-> 0]
    /\ instrs = <<>>
    /\ res = <<>>
    /\ run = 1
    /\ res1 = None
    /\ last = Idle
    /\ BackIdle

SpecDecl == DeclInit /\ [][Next]_vars

----------------------------------------------------------------------------
(* The back end: the two emitters applied to a lowered unit *)

\* The unit handed to the emitters, and the function it was lowered from.
Unit == res[fi]

UnitFunction == program.functions[fi]

BackInit ==
    /\ program \in BackPrograms
    /\ pc = "pass1"
    /\ symbols = SymbolTableNew
    /\ errors = <<>>
    /\ fi = 1
    /\ si = 1
    /\ result = None
    /\ state = [tmp |-> 0]
    /\ instrs = <<>>
    /\ res = <<>>
    /\ run = 1
    /\ res1 = None
    /\ last = Idle
    /\ BackIdle

\* What the emitters do not touch.
FrontVars == <<program, symbols, errors, result, state, instrs, res, run, res1, last>>

\* codegen_tac.rs 7-10: emit_function is called on the first unit.
TacBegin ==
    /\ pc = "done"
    /\ res # <<>>
    /\ fi' = 1
    /\ si' = 1
    /\ tac' = TacHeader(res[1])
    /\ pc' = "tac"
    /\ UNCHANGED <<FrontVars, str_pool, slots, offset, frame_size, out, call_args, cpu,
                   locals, ret>>

\* codegen_tac.rs 13-39: one iteration of the instruction loop.
TacInstr ==
    /\ pc = "tac"
    /\ si <= Len(Unit.instrs)
    /\ tac' = Append(tac, TacLine(Unit.instrs[si]))
    /\ si' = si + 1
    /\ UNCHANGED <<FrontVars, pc, fi, str_pool, slots, offset, frame_size, out, call_args,
                   cpu, locals, ret>>

\* codegen_tac.rs 42-43: the closing brace; the text is returned.
TacEnd ==
    /\ pc = "tac"
    /\ si > Len(Unit.instrs)
    /\ tac' = Append(tac, "}")
    /\ pc' = "x64"
    /\ UNCHANGED <<FrontVars, fi, si, str_pool, slots, offset, frame_size, out, call_args,
                   cpu, locals, ret>>

\* codegen_x64_windows.rs 7-26: the string pool.
X64PoolStrings ==
    /\ pc = "x64"
    /\ str_pool' = PoolStrings(EmptyMap, Unit.instrs)
    /\ pc' = "x64_slots"
    /\ UNCHANGED <<FrontVars, fi, si, tac, slots, offset, frame_size, out, call_args, cpu,
                   locals, ret>>

\* codegen_x64_windows.rs 29-60: the slots.
X64AssignSlots ==
    /\ pc = "x64_slots"
    /\ LET sl == AssignInstrSlots(
                     AssignParamSlots([slots |-> EmptyMap, offset |-> 0], Unit.params),
                     Unit.instrs)
       IN /\ slots' = sl.slots
          /\ offset' = sl.offset
    /\ pc' = "x64_prologue"
    /\ UNCHANGED <<FrontVars, fi, si, tac, str_pool, frame_size, out, call_args, cpu,
                   locals, ret>>

\* codegen_x64_windows.rs 63-70: the frame size and the prologue.
X64Prologue ==
    /\ pc = "x64_prologue"
    /\ frame_size' = FrameSize(offset)
    /\ out' = <<Comment("function " \o Unit.name), Push("rbp"), MovReg("rbp", "rsp"),
                SubRsp(FrameSize(offset))>>
    /\ si' = 1
    /\ pc' = "x64_body"
    /\ UNCHANGED <<FrontVars, fi, tac, str_pool, slots, offset, call_args, cpu, locals, ret>>

\* codegen_x64_windows.rs 73-128: one iteration of the instruction loop; an
\* unwrap of a missing slot panics.
X64EmitInstr ==
    /\ pc = "x64_body"
    /\ si <= Len(Unit.instrs)
    /\ LET r == EmitInstr(out, Unit.instrs[si], slots)
       IN /\ out' = r.out
          /\ pc' = IF r.ok THEN pc ELSE "panic"
    /\ si' = si + 1
    /\ UNCHANGED <<FrontVars, fi, tac, str_pool, slots, offset, frame_size, call_args, cpu,
                   locals, ret>>

\* codegen_x64_windows.rs 131-133: the closing return sequence.
X64Epilogue ==
    /\ pc = "x64_body"
    /\ si > Len(Unit.instrs)
    /\ out' = out \o Leave
    /\ pc' = "x64_data"
    /\ UNCHANGED <<FrontVars, fi, si, tac, str_pool, slots, offset, frame_size, call_args,
                   cpu, locals, ret>>

\* codegen_x64_windows.rs 136-143: the data section; the text is returned.
X64DataSection ==
    /\ pc = "x64_data"
    /\ \E ord \in Orders(DOMAIN str_pool) : out' = out \o DataSection(str_pool, ord)
    /\ pc' = "emitted"
    /\ UNCHANGED <<FrontVars, fi, si, tac, str_pool, slots, offset, frame_size, call_args,
                   cpu, locals, ret>>

\* The emitted function is called with its arguments in the argument
\* registers.
CpuCall ==
    /\ pc = "emitted"
    /\ \E as \in [1..Len(Unit.params) -> ArgValues] :
          /\ call_args' = as
          /\ cpu' = CpuEntered(as)
    /\ pc' = "running"
    /\ UNCHANGED <<FrontVars, fi, si, tac, str_pool, slots, offset, frame_size, out, locals,
                   ret>>

\* The processor executes the line at ip.
CpuStep ==
    /\ pc = "running"
    /\ \E v \in AnyValues : cpu' = CpuExec(cpu, out[cpu.ip], v)
    /\ pc' = IF cpu'.status = "running" THEN pc ELSE "ran"
    /\ UNCHANGED <<FrontVars, fi, si, tac, str_pool, slots, offset, frame_size, out,
                   call_args, locals, ret>>

\* codegen.rs 56-72: execute_function is called on the same function with
\* the same arguments; the parameters are bound.
ExecuteFunction ==
    /\ pc = "ran"
    /\ locals' = BindParams(UnitFunction, [k \in 1..Len(call_args) |-> IntValue(call_args[k])])
    /\ si' = 1
    /\ pc' = "exec"
    /\ UNCHANGED <<FrontVars, fi, tac, str_pool, slots, offset, frame_size, out, call_args,
                   cpu, ret>>

\* codegen.rs 75-79: one iteration of the statement loop; an Err or a
\* return ends the call.
ExecuteStmt ==
    /\ pc = "exec"
    /\ si <= Len(UnitFunction.body.stmts)
    /\ LET r == execute_stmt(UnitFunction.body.stmts[si], locals, program)
       IN /\ locals' = r.locals
          /\ IF ~r.ok
             THEN ret' = Some([ok |-> FALSE, msg |-> r.msg]) /\ pc' = "finished"
             ELSE IF IsSome(r.returned)
             THEN ret' = Some([ok |-> TRUE, v |-> Unwrap(r.returned)]) /\ pc' = "finished"
             ELSE ret' = ret /\ pc' = pc
    /\ si' = si + 1
    /\ UNCHANGED <<FrontVars, fi, tac, str_pool, slots, offset, frame_size, out, call_args,
                   cpu>>

\* codegen.rs 81: no statement returned.
ExecuteDefault ==
    /\ pc = "exec"
    /\ si > Len(UnitFunction.body.stmts)
    /\ ret' = Some([ok |-> TRUE, v |-> VoidValue])
    /\ pc' = "finished"
    /\ UNCHANGED <<FrontVars, fi, si, tac, str_pool, slots, offset, frame_size, out,
                   call_args, cpu, locals>>

BackNext ==
    \/ Pass1
    \/ EnterFunction
    \/ AnalyzeStmt
    \/ LeaveFunction
    \/ AnalyzeReturn
    \/ LowerProgram
    \/ LowerFunction
    \/ LowerStmt
    \/ LowerFunctionEnd
    \/ LowerReturn
    \/ TacBegin
    \/ TacInstr
    \/ TacEnd
    \/ X64PoolStrings
    \/ X64AssignSlots
    \/ X64Prologue
    \/ X64EmitInstr
    \/ X64Epilogue
    \/ X64DataSection
    \/ CpuCall
    \/ CpuStep
    \/ ExecuteFunction
    \/ ExecuteStmt
    \/ ExecuteDefault

SpecBack == BackInit /\ [][BackNext]_vars

\* The emitters are public functions: they are called on a unit that need
\* not come from lower_program.
EmitInit ==
    /\ program = Program(<<>>)
    /\ res \in {<<u>> : u \in IrUnits}
    /\ pc = "done"
    /\ symbols = SymbolTableNew
    /\ errors = <<>>
    /\ fi = 1
    /\ si = 1
    /\ result = None
    /\ state = [tmp |-> 0]
    /\ instrs = <<>>
    /\ run = 1
    /\ res1 = None
    /\ last = Idle
    /\ BackIdle

EmitNext ==
    \/ TacBegin
    \/ TacInstr
    \/ TacEnd
    \/ X64PoolStrings
    \/ X64AssignSlots
    \/ X64Prologue
    \/ X64EmitInstr
    \/ X64Epilogue
    \/ X64DataSection
    \/ CpuCall
    \/ CpuStep

SpecEmit == EmitInit /\ [][EmitNext]_vars

----------------------------------------------------------------------------
(* The symbol table on its own: any sequence of its operations *)

SymNames == {"a", "b"}

SymSigs == {FunctionSig("a", "Int", <<>>)}

SymVarTypes == {"Int"}

SymParamTypes == {"Float"}

SymInit ==
    /\ program = Program(<<>>)
    /\ pc = "sym"
    /\ symbols = SymbolTableNew
    /\ errors = <<>>
    /\ fi = 1
    /\ si = 1
    /\ result = None
    /\ state = [tmp |-> 0]
    /\ instrs = <<>>
    /\ res = <<>>
    /\ run = 1
    /\ res1 = None
    /\ last = Idle
    /\ BackIdle

SymRest == <<program, pc, errors, fi, si, result, state, instrs, res, run, res1, back>>

SymEnterScope ==
    /\ NumScopes(symbols) < MaxScopes
    /\ symbols' = enter_scope(symbols)
    /\ last' = [op |-> "enter_scope"]
    /\ UNCHANGED SymRest

SymLeaveScope ==
    /\ symbols' = leave_scope(symbols)
    /\ last' = [op |-> "leave_scope"]
    /\ UNCHANGED SymRest

SymDeclareGlobalFunction ==
    /\ \E sig \in SymSigs :
          LET d == declare_global_function(symbols, sig)
          IN /\ symbols' = d.table
             /\ last' = [op |-> "declare_global_function", name |-> sig.name, ok |-> d.ok]
    /\ UNCHANGED SymRest

SymDeclareLocalVar ==
    /\ \E name \in SymNames, ty \in SymVarTypes :
          LET d == declare_local_var(symbols, name, ty)
          IN /\ symbols' = d.table
             /\ last' = [op |-> "declare_local_var", name |-> name, ok |-> d.ok]
    /\ UNCHANGED SymRest

SymDeclareParam ==
    /\ \E name \in SymNames, ty \in SymParamTypes :
          LET d == declare_param(symbols, name, ty)
          IN /\ symbols' = d.table
             /\ last' = [op |-> "declare_param", name |-> name, ok |-> d.ok]
    /\ UNCHANGED SymRest

SymLookup ==
    /\ \E name \in SymNames :
          last' = [op |-> "lookup", name |-> name]
    /\ UNCHANGED symbols
    /\ UNCHANGED SymRest

SymNext ==
    \/ SymEnterScope
    \/ SymLeaveScope
    \/ SymDeclareGlobalFunction
    \/ SymDeclareLocalVar
    \/ SymDeclareParam
    \/ SymLookup

SpecSym == SymInit /\ [][SymNext]_vars

----------------------------------------------------------------------------
(* Claims about the symbol table (checked under SpecSym) *)

\* The parent chain of scope i: i, its parent, ..., up to the scope without
\* a parent.
RECURSIVE ChainFrom(_, _)
ChainFrom(t, i) ==
    <<i>> \o (IF IsSome(t.scopes[i].parent) THEN ChainFrom(t, Unwrap(t.scopes[i].parent))
              ELSE <<>>)

Chain(t) == ChainFrom(t, t.current)

\* The positions of the chain whose scope holds the name.
ChainHits(t, name) ==
    {k \in 1..Len(Chain(t)) : name \in DOMAIN t.scopes[Chain(t)[k]].symbols}

NearestOnChain(t, name) ==
    LET hits == ChainHits(t, name)
        k == CHOOSE h \in hits : \A h2 \in hits : h <= h2
    IN IF hits = {} THEN None ELSE Some(t.scopes[Chain(t)[k]].symbols[name])

\* C6: lookup returns the symbol of the nearest scope on the parent chain
\* from the current scope to scope 0 that holds the name (an inner
\* declaration shadows an outer one) and not-found exactly when no scope on
\* the chain holds it; scopes off the chain do not matter.
C6_LookupNearestOnChain ==
    pc = "sym" =>
        \A name \in SymNames :
            /\ lookup(symbols, name) = NearestOnChain(symbols, name)
            /\ (lookup(symbols, name) = None <=> ChainHits(symbols, name) = {})
            /\ Chain(symbols)[Len(Chain(symbols))] = 0

\* A lookup was made where "a" is declared twice on the chain with different
\* symbols, and "b" is declared only in a scope off the chain.
C6_Witness ==
    /\ pc = "sym"
    /\ last.op = "lookup"
    /\ Cardinality(ChainHits(symbols, "a")) >= 2
    /\ \E k \in ChainHits(symbols, "a") :
          Some(symbols.scopes[Chain(symbols)[k]].symbols["a"]) # lookup(symbols, "a")
    /\ ChainHits(symbols, "b") = {}
    /\ \E i \in DOMAIN symbols.scopes : "b" \in DOMAIN symbols.scopes[i].symbols
    /\ lookup(symbols, "b") = None

IsDeclare(op) == op \in {"declare_global_function", "declare_local_var", "declare_param"}

DeclareTarget(t, op) == IF op = "declare_global_function" THEN 0 ELSE t.current

\* What a declare step may change: nothing when it failed; when it
\* succeeded, only the target scope's symbols, by adding the one name.
DeclareEffect(t, t2, idx, name, ok) ==
    /\ ok <=> name \notin DOMAIN t.scopes[idx].symbols
    /\ ~ok => t2 = t
    /\ ok => /\ t2.current = t.current
             /\ DOMAIN t2.scopes = DOMAIN t.scopes
             /\ \A i \in DOMAIN t.scopes :
                   /\ t2.scopes[i].parent = t.scopes[i].parent
                   /\ i # idx => t2.scopes[i] = t.scopes[i]
             /\ DOMAIN t2.scopes[idx].symbols = DOMAIN t.scopes[idx].symbols \cup {name}
             /\ \A k \in DOMAIN t.scopes[idx].symbols :
                   t2.scopes[idx].symbols[k] = t.scopes[idx].symbols[k]
             /\ t2.scopes[idx].symbols[name].kind =
                   (CASE last'.op = "declare_global_function" -> "Function"
                      [] last'.op = "declare_local_var" -> "Variable"
                      [] OTHER -> "Param")

\* C7: a declare fails exactly when the name is already present in its
\* target scope (scope 0 for declare_global_function, the current scope for
\* declare_param and declare_local_var), whatever the ancestors hold; a
\* failed declare changes nothing, a successful one only adds the name to
\* the target scope.
C7_DeclareFailsIffPresentInTarget ==
    [][IsDeclare(last'.op) =>
          DeclareEffect(symbols, symbols', DeclareTarget(symbols, last'.op),
                        last'.name, last'.ok)]_vars

\* A local was declared successfully in a nested scope although an ancestor
\* scope holds the same name.
C7_Witness ==
    /\ pc = "sym"
    /\ last.op = "declare_local_var"
    /\ last.ok
    /\ symbols.current # 0
    /\ Cardinality(ChainHits(symbols, last.name)) >= 2

\* C8: enter_scope appends an empty scope whose parent is the scope that
\* was current and makes it current; leave_scope makes the parent current
\* and changes nothing at the global scope; neither touches the symbols of
\* an existing scope; leaving right after entering restores the current
\* scope.
C8_EnterLeaveScope ==
    [][/\ last'.op = "enter_scope" =>
            /\ DOMAIN symbols'.scopes = DOMAIN symbols.scopes \cup {NumScopes(symbols)}
            /\ NumScopes(symbols) \notin DOMAIN symbols.scopes
            /\ symbols'.scopes[NumScopes(symbols)] = ScopeNew(Some(symbols.current))
            /\ symbols'.current = NumScopes(symbols)
            /\ \A i \in DOMAIN symbols.scopes : symbols'.scopes[i] = symbols.scopes[i]
            /\ leave_scope(symbols').current = symbols.current
            /\ leave_scope(symbols').scopes = symbols'.scopes
       /\ last'.op = "leave_scope" =>
            /\ symbols'.scopes = symbols.scopes
            /\ symbols'.current =
                  (IF symbols.scopes[symbols.current].parent = None
                   THEN symbols.current
                   ELSE symbols.scopes[symbols.current].parent[1])
            /\ symbols.current = 0 => symbols' = symbols]_vars

\* A scope nested two deep was left for its parent, which is not the global
\* scope.
C8_Witness ==
    /\ pc = "sym"
    /\ last.op = "leave_scope"
    /\ symbols.current # 0
    /\ NumScopes(symbols) >= 3

----------------------------------------------------------------------------
(* What the program text says, independently of the symbol table: used to  *)
(* state the claims about analyze                                          *)

RECURSIVE SumSeq(_)
SumSeq(q) == IF q = <<>> THEN 0 ELSE q[1] + SumSeq(Tail(q))

FunctionNamesOf(p) == {p.functions[k].name : k \in 1..Len(p.functions)}

\* The definition a function name is registered with: the first one.
FirstIndexNamed(p, n) ==
    CHOOSE k \in 1..Len(p.functions) :
        /\ p.functions[k].name = n
        /\ \A k2 \in 1..(k - 1) : p.functions[k2].name # n

NameIsUnique(p, n) == Cardinality({k \in 1..Len(p.functions) : p.functions[k].name = n}) = 1

ParamNameSet(f) == {f.params[k][2] : k \in 1..Len(f.params)}

\* The names declared by the statements 1..j of f.
LocalsUpTo(f, j) ==
    {f.body.stmts[k].name : k \in {x \in 1..j : f.body.stmts[x].kind = "VarDecl"}}

\* Statement j declares a name that neither a parameter nor an earlier
\* statement of f declares.
DeclSucceeds(f, j) ==
    /\ f.body.stmts[j].kind = "VarDecl"
    /\ f.body.stmts[j].name \notin ParamNameSet(f) \cup LocalsUpTo(f, j - 1)

\* The expression of statement j is analyzed.
Analyzed(f, j) == f.body.stmts[j].kind \in {"ExprStmt", "Return"} \/ DeclSucceeds(f, j)

StmtExpr(stmt) == IF stmt.kind = "VarDecl" THEN stmt.value ELSE stmt.expr

\* The names that resolve while statement j of f is analyzed.
VisibleNames(p, f, j) == ParamNameSet(f) \cup LocalsUpTo(f, j) \cup FunctionNamesOf(p)

\* The number of references in e (identifier reads and assignment targets)
\* to a name outside vis.
RECURSIVE UndeclaredRefs(_, _)
UndeclaredRefs(e, vis) ==
    CASE e.kind = "Ident" -> IF e.name \in vis THEN 0 ELSE 1
      [] e.kind = "Unary" -> UndeclaredRefs(e.expr, vis)
      [] e.kind = "Binary" -> UndeclaredRefs(e.left, vis) + UndeclaredRefs(e.right, vis)
      [] e.kind = "Assign" ->
            (IF e.name \in vis THEN 0 ELSE 1) + UndeclaredRefs(e.value, vis)
      [] e.kind = "Call" ->
            SumSeq([k \in 1..Len(e.args) |-> UndeclaredRefs(e.args[k], vis)])
      [] OTHER -> 0

\* The number of calls of g with n arguments in e.
RECURSIVE CallsIn(_, _, _)
CallsIn(e, g, n) ==
    CASE e.kind = "Unary" -> CallsIn(e.expr, g, n)
      [] e.kind = "Binary" -> CallsIn(e.left, g, n) + CallsIn(e.right, g, n)
      [] e.kind = "Assign" -> CallsIn(e.value, g, n)
      [] e.kind = "Call" ->
            (IF e.name = g /\ Len(e.args) = n THEN 1 ELSE 0)
            + SumSeq([k \in 1..Len(e.args) |-> CallsIn(e.args[k], g, n)])
      [] OTHER -> 0

\* Sum of M(f, j) over the analyzed statements j of the functions named fname.
SumAnalyzed(p, fname, M(_, _)) ==
    SumSeq([i \in 1..Len(p.functions) |->
        IF p.functions[i].name # fname THEN 0
        ELSE SumSeq([j \in 1..Len(p.functions[i].body.stmts) |->
                 IF Analyzed(p.functions[i], j) THEN M(p.functions[i], j) ELSE 0])])

ExpectedUndeclared(p, fname) ==
    SumAnalyzed(p, fname,
        LAMBDA f, j : UndeclaredRefs(StmtExpr(f.body.stmts[j]), VisibleNames(p, f, j)))

ExpectedCalls(p, fname, g, n) ==
    SumAnalyzed(p, fname, LAMBDA f, j : CallsIn(StmtExpr(f.body.stmts[j]), g, n))

\* The number of recorded diagnostics that satisfy P.
CountErrors(P(_)) == Cardinality({k \in 1..Len(errors) : P(errors[k])})

\* analyze has just returned.
AnalyzeReturned == pc = "analyzed"

----------------------------------------------------------------------------
(* Claims about analyze (checked under Spec) *)

\* C1: analyze returns success exactly when no diagnostic was recorded,
\* otherwise the non-empty list; no diagnostic stops the traversal: for every
\* function name, the list holds one UndeclaredVariable per unresolved
\* reference in the analyzed statements of the functions of that name, so
\* unresolved references in two functions are both reported.
C1_AllDiagnosticsCollected ==
    AnalyzeReturned =>
        /\ Unwrap(result) = "Ok" <=> errors = <<>>
        /\ Unwrap(result) = "Err" <=> Len(errors) > 0
        /\ \A fname \in FunctionNamesOf(program) :
              CountErrors(LAMBDA e : e.kind = "UndeclaredVariable" /\ e.func = fname)
                 = ExpectedUndeclared(program, fname)
        /\ CountErrors(LAMBDA e : e.kind = "UndeclaredVariable"
                                  /\ e.func \notin FunctionNamesOf(program)) = 0

\* analyze returned the list for a program of two functions of different
\* names, each with an unresolved reference, and each is reported.
C1_Witness ==
    /\ AnalyzeReturned
    /\ Unwrap(result) = "Err"
    /\ Len(program.functions) = 2
    /\ program.functions[1].name # program.functions[2].name
    /\ \A i \in 1..2 :
          /\ ExpectedUndeclared(program, program.functions[i].name) > 0
          /\ CountErrors(LAMBDA e : e.kind = "UndeclaredVariable"
                                    /\ e.func = program.functions[i].name) > 0

\* f declares one parameter name exactly twice and every other one once.
OneNameTwice(f) ==
    \E n \in ParamNameSet(f) :
        /\ Cardinality({k \in 1..Len(f.params) : f.params[k][2] = n}) = 2
        /\ \A m \in ParamNameSet(f) \ {n} :
              Cardinality({k \in 1..Len(f.params) : f.params[k][2] = m}) = 1

\* C2: a function that declares one parameter name exactly twice gets
\* exactly one DuplicateParam diagnostic, pass 1 and pass 2 counted
\* together.
C2_ExactlyOneDuplicateParam ==
    AnalyzeReturned =>
        \A i \in 1..Len(program.functions) :
            (OneNameTwice(program.functions[i])
             /\ NameIsUnique(program, program.functions[i].name))
            => CountErrors(LAMBDA e : e.kind = "DuplicateParam"
                                      /\ e.func = program.functions[i].name) = 1

\* C3: when the registered g has two parameters, every call of g with one
\* argument in an analyzed position yields exactly one WrongArgCount with
\* expected 2 and found 1, attributed to the calling function; inferring the
\* call's type adds none.
C3_OneWrongArgCountPerCall ==
    AnalyzeReturned =>
        \A g \in FunctionNamesOf(program) :
            Len(program.functions[FirstIndexNamed(program, g)].params) = 2 =>
                \A fname \in FunctionNamesOf(program) :
                    /\ CountErrors(LAMBDA e : e.kind = "WrongArgCount" /\ e.func = fname
                                              /\ e.name = g /\ e.expected = 2 /\ e.found = 1)
                          = ExpectedCalls(program, fname, g, 1)
                    /\ CountErrors(LAMBDA e : e.kind = "WrongArgCount" /\ e.func = fname
                                              /\ e.name = g /\ e.found = 1)
                          = ExpectedCalls(program, fname, g, 1)

\* g has two parameters, f calls it once with one argument in the
\* initializer of a declared variable, and the one diagnostic is recorded.
C3_Witness ==
    /\ AnalyzeReturned
    /\ "g" \in FunctionNamesOf(program)
    /\ Len(program.functions[FirstIndexNamed(program, "g")].params) = 2
    /\ ExpectedCalls(program, "f", "g", 1) = 1
    /\ \E i \in 1..Len(program.functions) :
          /\ program.functions[i].name = "f"
          /\ \E j \in 1..Len(program.functions[i].body.stmts) :
                /\ DeclSucceeds(program.functions[i], j)
                /\ program.functions[i].body.stmts[j].value = CallG(1)
    /\ CountErrors(LAMBDA e : e.kind = "WrongArgCount") = 1
    /\ \E k \in 1..Len(errors) : errors[k] = WrongArgCount("f", "g", 2, 1)

AllTypes == {"Int", "Float", "Char", "Void"}

\* The type of the first declaration of n among f's parameters, else among
\* the statements 1..j of f; None when neither declares n.
StaticTypeOfName(f, j, n) ==
    IF n \in ParamNameSet(f)
    THEN Some(f.params[CHOOSE k \in 1..Len(f.params) :
                          /\ f.params[k][2] = n
                          /\ \A k2 \in 1..(k - 1) : f.params[k2][2] # n][1])
    ELSE IF n \in LocalsUpTo(f, j)
    THEN Some(f.body.stmts[CHOOSE k \in 1..j :
                              /\ f.body.stmts[k].kind = "VarDecl"
                              /\ f.body.stmts[k].name = n
                              /\ \A k2 \in 1..(k - 1) :
                                    ~(f.body.stmts[k2].kind = "VarDecl"
                                      /\ f.body.stmts[k2].name = n)].ty)
    ELSE None

\* The type the language gives expression e at statement j of f: literals
\* have their own type, a name the type of its declaration, a call the
\* return type of the registered definition, an assignment the type of its
\* variable (else of its value), a binary expression the common type of its
\* operands; everything else has none.
RECURSIVE StaticType(_, _, _, _)
StaticType(p, f, j, e) ==
    CASE e.kind = "Number" -> Some("Int")
      [] e.kind = "FloatNumber" -> Some("Float")
      [] e.kind = "CharLiteral" -> Some("Char")
      [] e.kind = "Ident" -> StaticTypeOfName(f, j, e.name)
      [] e.kind = "Binary" ->
            IF StaticType(p, f, j, e.left) = StaticType(p, f, j, e.right)
            THEN StaticType(p, f, j, e.left)
            ELSE None
      [] e.kind = "Assign" ->
            IF e.name \notin ParamNameSet(f) /\ e.name \in LocalsUpTo(f, j)
            THEN StaticTypeOfName(f, j, e.name)
            ELSE StaticType(p, f, j, e.value)
      [] e.kind = "Call" ->
            IF e.name \in FunctionNamesOf(p)
            THEN Some(p.functions[FirstIndexNamed(p, e.name)].return_type)
            ELSE None
      [] OTHER -> None

\* The return statements of f whose expression has type ty.
ReturnsOfType(p, f, ty) ==
    {j \in 1..Len(f.body.stmts) :
        /\ f.body.stmts[j].kind = "Return"
        /\ StaticType(p, f, j, f.body.stmts[j].expr) = Some(ty)}

NamesDistinct(p) == \A n \in FunctionNamesOf(p) : NameIsUnique(p, n)

\* C4: with pairwise distinct function names, every return whose expression
\* has a type other than the declared return type yields exactly one
\* ReturnTypeMismatch (expected the declared type, found the inferred one),
\* and a return of the declared type yields none.
C4_OneReturnTypeMismatchPerReturn ==
    (AnalyzeReturned /\ NamesDistinct(program)) =>
        \A i \in 1..Len(program.functions) :
            LET f == program.functions[i]
            IN /\ \A ty \in AllTypes :
                     CountErrors(LAMBDA e : e.kind = "ReturnTypeMismatch" /\ e.func = f.name
                                            /\ e.expected = f.return_type /\ e.found = ty)
                        = IF ty = f.return_type THEN 0
                          ELSE Cardinality(ReturnsOfType(program, f, ty))
               /\ CountErrors(LAMBDA e : e.kind = "ReturnTypeMismatch" /\ e.func = f.name)
                     = Cardinality(UNION {ReturnsOfType(program, f, ty) :
                                             ty \in AllTypes \ {f.return_type}})

\* A function declared Int returns a float literal and then an expression of
\* its own type: one ReturnTypeMismatch (expected Int, found Float).
C4_Witness ==
    /\ AnalyzeReturned
    /\ NamesDistinct(program)
    /\ \E i \in 1..Len(program.functions) :
          LET f == program.functions[i]
          IN /\ f.return_type = "Int"
             /\ Len(f.body.stmts) = 2
             /\ f.body.stmts[1] = Return(FloatNumber("2.5"))
             /\ f.body.stmts[2] = Return(Number(1))
             /\ CountErrors(LAMBDA e : e.kind = "ReturnTypeMismatch" /\ e.func = f.name) = 1
             /\ \E k \in 1..Len(errors) : errors[k] = ReturnTypeMismatch(f.name, "Int", "Float")

\* Function i calls, in an analyzed statement, a function g whose registered
\* definition comes later in the program.
ForwardCallers(p, g) ==
    {i \in 1..Len(p.functions) :
        /\ i < FirstIndexNamed(p, g)
        /\ NameIsUnique(p, p.functions[i].name)}

\* C5: all signatures are registered before any body is analyzed: a call in
\* f of a g defined later is checked against g's parameter count, and its
\* type is g's return type (seen where the call initialises a variable or is
\* returned).
C5_ForwardReferencesResolve ==
    AnalyzeReturned =>
        \A g \in FunctionNamesOf(program) :
            \A i \in ForwardCallers(program, g) :
                LET f == program.functions[i]
                    callee == program.functions[FirstIndexNamed(program, g)]
                    np == Len(callee.params)
                IN /\ \A n \in 0..(MaxArgs + 1) :
                         CountErrors(LAMBDA e : e.kind = "WrongArgCount" /\ e.func = f.name
                                                /\ e.name = g /\ e.found = n)
                            = IF np # 0 /\ np # n
                              THEN ExpectedCalls(program, f.name, g, n)
                              ELSE 0
                   /\ \A k \in 1..Len(errors) :
                         (errors[k].kind = "WrongArgCount" /\ errors[k].func = f.name
                          /\ errors[k].name = g) => errors[k].expected = np
                   /\ \A j \in 1..Len(f.body.stmts) :
                         LET st == f.body.stmts[j]
                         IN /\ (DeclSucceeds(f, j) /\ st.value.kind = "Call"
                                /\ st.value.name = g /\ st.ty # callee.return_type)
                               => \E k \in 1..Len(errors) :
                                     errors[k] = TypeMismatch(f.name, st.ty, callee.return_type)
                            /\ (st.kind = "Return" /\ st.expr.kind = "Call"
                                /\ st.expr.name = g /\ f.return_type # callee.return_type)
                               => \E k \in 1..Len(errors) :
                                     errors[k] = ReturnTypeMismatch(f.name, f.return_type,
                                                                    callee.return_type)

\* f comes first and initialises an Int variable with a one-argument call of
\* the two-parameter Float function g defined after it: the arity and the
\* type diagnostics are both recorded.
C5_Witness ==
    /\ AnalyzeReturned
    /\ Len(program.functions) = 2
    /\ program.functions[1].name = "f"
    /\ program.functions[2].name = "g"
    /\ program.functions[2].return_type = "Float"
    /\ Len(program.functions[2].params) = 2
    /\ \E j \in 1..Len(program.functions[1].body.stmts) :
          /\ DeclSucceeds(program.functions[1], j)
          /\ program.functions[1].body.stmts[j].value = CallG(1)
    /\ \E k \in 1..Len(errors) : errors[k] = WrongArgCount("f", "g", 2, 1)
    /\ \E k \in 1..Len(errors) : errors[k] = TypeMismatch("f", "Int", "Float")

\* The calls, in the analyzed statements of the functions named fname, of a
\* name no function of the program has.
UnknownCallees(p, fname) ==
    {g \in {"printf", "g", "f"} \ FunctionNamesOf(p) :
        \E n \in 0..(MaxArgs + 1) : ExpectedCalls(p, fname, g, n) > 0}

\* C16: a call of a name that is no registered function yields no
\* diagnostic of its own whatever its argument count, while its arguments
\* are analyzed; a call of a registered function yields WrongArgCount exactly
\* when the declared parameter list is non-empty and its length differs from
\* the argument count, so a function declared without parameters is never
\* reported.
C16_ArityCheckedForKnownNonEmptyOnly ==
    AnalyzeReturned =>
        /\ \A k \in 1..Len(errors) :
              errors[k].kind = "WrongArgCount" =>
                  /\ errors[k].name \in FunctionNamesOf(program)
                  /\ LET np == Len(program.functions[
                                     FirstIndexNamed(program, errors[k].name)].params)
                     IN np # 0 /\ errors[k].expected = np /\ errors[k].found # np
        /\ \A g \in FunctionNamesOf(program), fname \in FunctionNamesOf(program) :
              LET np == Len(program.functions[FirstIndexNamed(program, g)].params)
              IN \A n \in 0..(MaxArgs + 1) :
                    CountErrors(LAMBDA e : e.kind = "WrongArgCount" /\ e.func = fname
                                           /\ e.name = g /\ e.found = n)
                       = IF np # 0 /\ np # n THEN ExpectedCalls(program, fname, g, n) ELSE 0
        /\ \A fname \in FunctionNamesOf(program) :
              UnknownCallees(program, fname) # {} =>
                  CountErrors(LAMBDA e : e.kind = "UndeclaredVariable" /\ e.func = fname)
                     = ExpectedUndeclared(program, fname)

\* f calls g, declared without parameters, with one argument, and then
\* printf, which no function of the program is, with an undeclared variable
\* among its arguments: the variable is reported, neither call is.
C16_Witness ==
    /\ AnalyzeReturned
    /\ Len(program.functions) = 2
    /\ \E i \in 1..2 :
          /\ program.functions[i].name = "g"
          /\ program.functions[i].params = <<>>
    /\ \E i \in 1..2 :
          /\ program.functions[i].name = "f"
          /\ program.functions[i].body.stmts =
                <<ExprStmt(CallG(1)),
                  ExprStmt(Call("printf", <<StringLiteral("hi"), Ident("b")>>))>>
    /\ "printf" \in UnknownCallees(program, "f")
    /\ ExpectedCalls(program, "f", "g", 1) = 1
    /\ CountErrors(LAMBDA e : e.kind = "WrongArgCount") = 0
    /\ \E k \in 1..Len(errors) : errors[k] = UndeclaredVariable("f", "b")

----------------------------------------------------------------------------
(* Claims about lower_program (checked under Spec) *)

\* The destinations of the BinOp and Call instructions, in instruction order.
RECURSIVE Dests(_)
Dests(is) ==
    IF is = <<>> THEN <<>>
    ELSE (CASE is[1].kind = "BinOp" -> <<is[1].dest>>
            [] is[1].kind = "Call" -> is[1].dest
            [] OTHER -> <<>>)
         \o Dests(Tail(is))

NumberedFromZero(names) == \A k \in 1..Len(names) : names[k] = "t" \o ToString(k - 1)

\* C9: lowering the same program twice yields identical IR units, and in
\* every unit the destinations of the BinOp and Call instructions are, in
\* order, t0, t1, t2, ...: no gap, none defined twice, restarting at t0 for
\* each function.
C9_TemporariesNumberedPerFunction ==
    /\ \A u \in 1..Len(res) : NumberedFromZero(Dests(res[u].instrs))
    /\ pc = "lower_body" => NumberedFromZero(Dests(instrs))
    /\ pc = "done" => res = Unwrap(res1)

\* Both calls returned; the first unit defines three temporaries and the
\* unit after it starts again at t0.
C9_Witness ==
    /\ pc = "done"
    /\ Len(res) = 2
    /\ Len(Dests(res[1].instrs)) >= 3
    /\ Len(Dests(res[2].instrs)) >= 1
    /\ Dests(res[2].instrs)[1] = "t0"
    /\ res = Unwrap(res1)

\* The names of the operands an instruction reads, by operand kind.
OperandsRead(in) ==
    CASE in.kind = "StoreLocal" -> <<in.src>>
      [] in.kind = "BinOp" -> <<in.left, in.right>>
      [] in.kind = "Call" -> in.args
      [] in.kind = "Return" -> in.src

ReadsOfKind(in, kind) ==
    {OperandsRead(in)[k].name :
        k \in {x \in 1..Len(OperandsRead(in)) : OperandsRead(in)[x].kind = kind}}

\* Every Temp an instruction reads is the destination of an earlier BinOp or
\* Call, every Local it reads a parameter or the target of an earlier
\* StoreLocal.
AssignedBeforeRead(unit) ==
    \A k \in 1..Len(unit.instrs) :
        /\ \A tn \in ReadsOfKind(unit.instrs[k], "Temp") :
              \E d \in 1..Len(Dests(SubSeq(unit.instrs, 1, k - 1))) :
                  Dests(SubSeq(unit.instrs, 1, k - 1))[d] = tn
        /\ \A ln \in ReadsOfKind(unit.instrs[k], "Local") :
              \/ \E q \in 1..Len(unit.params) : unit.params[q] = ln
              \/ \E k2 \in 1..(k - 1) :
                    unit.instrs[k2].kind = "StoreLocal" /\ unit.instrs[k2].name = ln

\* C10: in every IR unit lowered from a program analyze accepts, every
\* value is assigned before it is read.
C10_AssignedBeforeRead ==
    result = Some("Ok") =>
        \A u \in 1..Len(res) : AssignedBeforeRead(res[u])

----------------------------------------------------------------------------
(* Claims about the x64 emitter (checked under SpecBack) *)

\* The names slot assignment sees, in the order it sees them: the
\* parameters, then the StoreLocal targets and the BinOp and Call
\* destinations in instruction order.
DefinedNames(unit) ==
    unit.params
    \o [k \in 1..Len(unit.instrs) |->
           IF unit.instrs[k].kind = "StoreLocal" THEN unit.instrs[k].name
           ELSE IF unit.instrs[k].kind = "BinOp" THEN unit.instrs[k].dest
           ELSE IF unit.instrs[k].kind = "Call" /\ IsSome(unit.instrs[k].dest)
           THEN Unwrap(unit.instrs[k].dest)
           ELSE ""]

\* The position at which each name is first seen.
FirstSeenAt(names, n) == CHOOSE k \in 1..Len(names) :
    names[k] = n /\ \A k2 \in 1..(k - 1) : names[k2] # n

\* The number of distinct names first seen up to position k.
RankOf(names, n) ==
    Cardinality({names[j] : j \in {x \in 1..FirstSeenAt(names, n) : names[x] # ""}})

SlotsAssigned == pc \in {"x64_body", "x64_data", "emitted", "panic"}

\* C13: distinct names get distinct offsets, the offsets are 8, 16, 24, ...
\* in first-seen order (parameters first), a name seen again keeps its first
\* offset, and the frame size is a multiple of 16, at least 32 and at least
\* the largest offset.
C13_SlotsInjectiveFrameAligned ==
    SlotsAssigned =>
        LET names == DefinedNames(Unit)
            seen == {names[k] : k \in 1..Len(names)} \ {""}
        IN /\ DOMAIN slots = seen
           /\ \A n \in seen : slots[n] = 8 * RankOf(names, n)
           /\ \A n, m \in seen : n # m => slots[n] # slots[m]
           /\ offset = 8 * Cardinality(seen)
           /\ frame_size % 16 = 0
           /\ frame_size >= 32
           /\ \A n \in seen : frame_size >= slots[n]

\* Six names got slots, one of them (t0, a parameter and a BinOp
\* destination) seen twice, and the frame is larger than the floor.
C13_Witness ==
    /\ SlotsAssigned
    /\ Unit.params = <<"a", "t0">>
    /\ \E k \in 1..Len(Unit.instrs) :
          Unit.instrs[k].kind = "BinOp" /\ Unit.instrs[k].dest = "t0"
    /\ Cardinality(DOMAIN slots) = 6
    /\ slots["t0"] = 16
    /\ frame_size = 48

\* The string values that occur as a Call argument or a BinOp operand.
PooledStrings(unit) ==
    UNION {{unit.instrs[k].args[j].s :
                j \in {x \in 1..Len(unit.instrs[k].args) :
                          unit.instrs[k].args[x].kind = "ConstString"}} :
              k \in {x \in 1..Len(unit.instrs) : unit.instrs[x].kind = "Call"}}
    \cup UNION {{o.s : o \in {q \in {unit.instrs[k].left, unit.instrs[k].right} :
                                   q.kind = "ConstString"}} :
                   k \in {x \in 1..Len(unit.instrs) : unit.instrs[x].kind = "BinOp"}}

\* The lines of the text that are storage entries, and those that load the
\* address of a string.
DbLines == {k \in 1..Len(out) : out[k].asm = "db"}

LeaLines == {k \in 1..Len(out) : out[k].asm = "lea"}

\* C14: the data section holds exactly one entry per distinct string value
\* that occurs as a Call argument or a BinOp operand, however often it
\* occurs, and every load of such a value references the label of its entry.
C14_OneEntryPerStringValue ==
    pc = "emitted" =>
        /\ \A s \in PooledStrings(Unit) :
              /\ Cardinality({k \in DbLines : out[k].s = s}) = 1
              /\ \A k \in LeaLines : out[k].s = s =>
                    \E d \in DbLines : out[d].s = s /\ out[d].label = out[k].label
        /\ Cardinality(DbLines) = Cardinality(PooledStrings(Unit))
        /\ \A d \in DbLines : out[d].s \in PooledStrings(Unit)

\* Two Call instructions pass the string "hi"; the data section has one
\* entry for it and one for the other string, and three loads reference
\* them.
C14_Witness ==
    /\ pc = "emitted"
    /\ Cardinality({k \in 1..Len(Unit.instrs) :
                       /\ Unit.instrs[k].kind = "Call"
                       /\ \E j \in 1..Len(Unit.instrs[k].args) :
                             Unit.instrs[k].args[j] = ConstString("hi")}) = 2
    /\ Cardinality(DbLines) = 2
    /\ Cardinality({k \in LeaLines : out[k].s = "hi"}) = 2
    /\ Cardinality(LeaLines) = 3

\* The lines of text t that load an operand: from a slot, an immediate or a
\* string's address.
LoadLines(t) == {k \in 1..Len(t) : t[k].asm \in {"load", "imm", "lea"}}

\* The k-th smallest element of a set of positions.
Nth(S, k) == CHOOSE x \in S : Cardinality({y \in S : y <= x}) = k

\* Line l loads operand op into register reg.
LoadsOperand(l, op, reg, sl) ==
    /\ l.reg = reg
    /\ CASE op.kind \in {"Temp", "Local"} -> l.asm = "load" /\ l.off = sl[op.name]
         [] op.kind = "ConstInt" -> l.asm = "imm" /\ l.i = op.i
         [] op.kind = "ConstFloat" -> l.asm = "imm"
         [] op.kind = "ConstString" -> l.asm = "lea" /\ l.s = op.s

\* The lines t emitted for the Call instruction in: one load per argument in
\* argument order, into rcx, rdx, r8, r9 for the first four and into rax
\* followed at once by a push for each later one, then the one call, then
\* the store of rax to the destination's slot when there is a destination.
CallLinesAsClaimed(t, in, sl) ==
    LET n == Len(in.args)
        loads == LoadLines(t)
        calls == {k \in 1..Len(t) : t[k].asm = "call"}
        pushes == {k \in 1..Len(t) : t[k].asm = "push"}
    IN /\ Cardinality(loads) = n
       /\ \A k \in 1..n :
             /\ LoadsOperand(t[Nth(loads, k)], in.args[k],
                             IF k <= 4 THEN <<"rcx", "rdx", "r8", "r9">>[k] ELSE "rax", sl)
             /\ k > 4 => t[Nth(loads, k) + 1] = Push("rax")
       /\ Cardinality(pushes) = IF n > 4 THEN n - 4 ELSE 0
       /\ \A k \in pushes : (k - 1) \in loads /\ Cardinality({y \in loads : y < k}) > 4
       /\ Cardinality(calls) = 1
       /\ \A c \in calls :
             /\ t[c] = CallLine(in.name)
             /\ \A k \in loads \cup pushes : k < c
             /\ IF IsSome(in.dest)
                THEN c + 1 = Len(t) /\ t[c + 1] = StoreSlot(sl[Unwrap(in.dest)])
                ELSE c = Len(t)

C11_NoUnresolvedSlotLookup ==
    result = Some("Ok") => pc # "panic"

----------------------------------------------------------------------------
(* Claims about the TAC emitter (checked under SpecBack) *)

\* lower_program has returned for the last time.
LoweringDone ==
    pc \notin {"pass1", "pass2", "body", "return", "analyzed", "lower", "lower_body", "lowered"}

\* The TAC emitter has returned its text.
TacReturned == LoweringDone /\ pc \notin {"done", "tac"}

\* C12: int add(int a, int b) { int c = a + b; return c; } lowers to exactly
\* BinOp t0 = a + b, StoreLocal c <- t0, Return c in this order, and the TAC
\* emitter renders the unit as a .func block with exactly three body lines
\* in the same order.
C12_AddLowersAndRendersInOrder ==
    program = Program(<<AddFunction>>) =>
        /\ LoweringDone =>
              res = <<FunctionIR("add", <<"a", "b">>,
                                 <<BinOp("t0", "+", Local("a"), Local("b")),
                                   StoreLocal("c", Temp("t0")),
                                   ReturnInstr(Some(Local("c")))>>)>>
        /\ TacReturned =>
              tac = <<".func add(a, b)", "{",
                      "  t0 = %a + %b", "  MOV %c, t0", "  RET %c",
                      "}">>

\* The TAC text of add was returned.
C12_Witness ==
    /\ program = Program(<<AddFunction>>)
    /\ result = Some("Ok")
    /\ TacReturned
    /\ Len(tac) = 6

----------------------------------------------------------------------------
(* Claims about the emitted x64 text when it runs (checked under SpecBack) *)

\* The processor is about to execute a line of the text of an accepted
\* program.
Executing == pc = "running" /\ result = Some("Ok")

\* The value the line at position k of the text loads, when the text and
\* the slots determine it.
ValueLoadedBy(c, k) ==
    IF out[k].asm = "imm" THEN Some(out[k].i)
    ELSE IF out[k].asm = "load" /\ out[k].off \in DOMAIN c.mem THEN Some(c.mem[out[k].off])
    ELSE None

\* C17: for a BinOp with operator "/" the divisor in rdx still holds the
\* right operand's value after the sign-extension step, the divide
\* instruction leaves the signed quotient of the left operand by the right
\* operand in rax, and that quotient is what the destination slot receives.
C17_QuotientOfLeftByRight ==
    [][Executing =>
          /\ out[cpu.ip] = Op("cqo") => cpu'.regs["rdx"] = cpu.regs["rdx"]
          /\ (out[cpu.ip] = Op("idiv rdx") /\ IsSome(ValueLoadedBy(cpu, cpu.ip - 2))) =>
                /\ cpu'.status = "running"
                /\ cpu'.regs["rax"]
                      = TruncDiv(cpu.regs["rax"], Unwrap(ValueLoadedBy(cpu, cpu.ip - 2)))
          /\ (out[cpu.ip].asm = "store" /\ out[cpu.ip - 1] = Op("idiv rdx")) =>
                cpu'.mem[out[cpu.ip].off] = cpu.regs["rax"]]_vars

\* The names a function's text declares: its parameters and its variables.
UserNames(f) ==
    {f.params[k][2] : k \in 1..Len(f.params)}
    \cup {f.body.stmts[k].name :
             k \in {j \in 1..Len(f.body.stmts) : f.body.stmts[j].kind = "VarDecl"}}

\* C19: storing the result of a BinOp or of a Call into its temporary (the
\* store that follows the operator's or the call's line) leaves the value
\* of every user-declared local and parameter unchanged.
C19_TemporaryStoreKeepsUserValues ==
    [][(Executing /\ out[cpu.ip].asm = "store" /\ out[cpu.ip - 1].asm \in {"op", "call"}) =>
          \A u \in UserNames(UnitFunction) :
              (u \in DOMAIN slots /\ slots[u] \in DOMAIN cpu.mem) =>
                  cpu'.mem[slots[u]] = cpu.mem[slots[u]]]_vars

\* The text stores to the slot at off somewhere before position k.
StoredBefore(off, k) == \E j \in 1..(k - 1) : out[j].asm = "store" /\ out[j].off = off

\* C20: no slot is read before it has been written, and a read of a
\* parameter's slot that the body has not stored to observes the argument
\* the caller passed for that parameter.
C20_ParameterSlotsHoldArguments ==
    [][(Executing /\ out[cpu.ip].asm = "load") =>
          /\ out[cpu.ip].off \in DOMAIN cpu.mem
          /\ \A k \in 1..Len(Unit.params) :
                (/\ slots[Unit.params[k]] = out[cpu.ip].off
                 /\ ~StoredBefore(out[cpu.ip].off, cpu.ip)) =>
                    cpu'.regs[out[cpu.ip].reg] = call_args[k]]_vars

----------------------------------------------------------------------------
(* Claims relating the lowered IR to the interpreter (checked under         *)
(* SpecBack)                                                                *)

\* Expressions built from integer literals, the names in ns, assignments
\* to them and + - *.
RECURSIVE InFragmentExpr(_, _)
InFragmentExpr(e, ns) ==
    CASE e.kind = "Number" -> TRUE
      [] e.kind = "Ident" -> e.name \in ns
      [] e.kind = "Assign" -> e.name \in ns /\ InFragmentExpr(e.value, ns)
      [] e.kind = "Binary" ->
            /\ e.op \in {"Add", "Sub", "Mul"}
            /\ InFragmentExpr(e.left, ns)
            /\ InFragmentExpr(e.right, ns)
      [] OTHER -> FALSE

InFragment(f) ==
    \A k \in 1..Len(f.body.stmts) :
        InFragmentExpr(IF f.body.stmts[k].kind = "VarDecl" THEN f.body.stmts[k].value
                       ELSE f.body.stmts[k].expr,
                       UserNames(f))

\* The value of an operand when its instruction executes: a Local reads the
\* local's value at that moment, a Temp the temporary's.
OperandNow(o, env) ==
    CASE o.kind = "ConstInt" -> o.i
      [] o.kind = "Local" -> env.locals[o.name]
      [] o.kind = "Temp" -> env.temps[o.name]

\* The IR instructions from k on executed in order; the value of the first
\* Return reached, None when there is none.
RECURSIVE RunIR(_, _, _)
RunIR(is, k, env) ==
    IF k > Len(is) THEN None
    ELSE LET in == is[k]
         IN CASE in.kind = "StoreLocal" ->
                    RunIR(is, k + 1,
                          [env EXCEPT !.locals = MapInsert(env.locals, in.name,
                                                           OperandNow(in.src, env))])
              [] in.kind = "BinOp" ->
                    LET l == OperandNow(in.left, env)
                        r == OperandNow(in.right, env)
                        v == CASE in.op = "+" -> l + r
                               [] in.op = "-" -> l - r
                               [] in.op = "*" -> l * r
                    IN RunIR(is, k + 1, [env EXCEPT !.temps = MapInsert(env.temps, in.dest, v)])
              [] in.kind = "Return" ->
                    IF IsSome(in.src) THEN Some(OperandNow(Unwrap(in.src), env)) ELSE None

\* The IR unit run on the arguments of the call.
UnitResult ==
    RunIR(Unit.instrs, 1,
          [locals |-> [n \in {Unit.params[k] : k \in 1..Len(Unit.params)} |->
                          call_args[CHOOSE k \in 1..Len(Unit.params) : Unit.params[k] = n]],
           temps |-> EmptyMap])

\* C18: for an accepted function built from integer literals, locals,
\* parameters, assignments and + - *, executing the lowered IR in order
\* returns the value the interpreter returns for the same arguments.
C18_LoweredIRAgreesWithInterpreter ==
    (pc = "finished" /\ result = Some("Ok") /\ InFragment(UnitFunction)) =>
        /\ IsSome(ret)
        /\ ret[1].ok
        /\ ret[1].v = IF IsSome(UnitResult) THEN IntValue(Unwrap(UnitResult)) ELSE VoidValue

----------------------------------------------------------------------------
(* Further claims about the x64 emitter (checked under SpecBack) *)

\* C21: for a unit lowered from an accepted program every string label that
\* an emitted load references has a storage entry in the data section, and
\* no StoreLocal or Return of the unit has a ConstString as its source.
C21_EveryLoadedLabelHasStorage ==
    (pc = "emitted" /\ result = Some("Ok")) =>
        /\ \A k \in LeaLines : \E d \in DbLines : out[d].label = out[k].label
        /\ \A k \in 1..Len(Unit.instrs) :
              /\ Unit.instrs[k].kind = "StoreLocal" => Unit.instrs[k].src.kind # "ConstString"
              /\ (Unit.instrs[k].kind = "Return" /\ IsSome(Unit.instrs[k].src)) =>
                    Unwrap(Unit.instrs[k].src).kind # "ConstString"

\* The operator symbols lowering can put into a BinOp.
OperatorSymbols == {"+", "-", "*", "/", "neg", "not"}

\* The unit is one BinOp of a unary operator on an integer literal, and the
\* return of its temporary.
UnaryOfLiteral ==
    /\ Len(Unit.instrs) = 2
    /\ Unit.instrs[1].kind = "BinOp"
    /\ Unit.instrs[1].op \in {"neg", "not"}
    /\ Unit.instrs[1].left.kind = "ConstInt"
    /\ Unit.instrs[2] = ReturnInstr(Some(Temp(Unit.instrs[1].dest)))

\* C22: no operator symbol of the IR is copied into the text as an
\* instruction, the text of an accepted function is made of instructions the
\* processor executes, and for neg and not the value that reaches the
\* destination (and is returned from it) is the negation, respectively the
\* logical-not, of the left operand.
C22_EveryOperatorTranslated ==
    result = Some("Ok") =>
        /\ pc = "emitted" =>
              \A k \in 1..Len(out) : out[k].asm = "op" => out[k].text \notin OperatorSymbols
        /\ pc \in {"running", "ran"} => cpu.status # "invalid"
        /\ (pc = "ran" /\ UnaryOfLiteral) =>
              /\ cpu.status = "returned"
              /\ cpu.regs["rax"] = IF Unit.instrs[1].op = "neg" THEN -Unit.instrs[1].left.i
                                   ELSE IF Unit.instrs[1].left.i = 0 THEN 1 ELSE 0

----------------------------------------------------------------------------
(* Further claims about analyze (checked under Spec) *)

\* The returns, as pairs <<definition, statement>>, of the definitions named
\* n that declare the return type ex, whose expression has the type fd.
ReturnsIn(p, n, ex, fd) ==
    {ij \in (1..Len(p.functions)) \X (1..MaxStmts) :
        /\ p.functions[ij[1]].name = n
        /\ p.functions[ij[1]].return_type = ex
        /\ ij[2] \in ReturnsOfType(p, p.functions[ij[1]], fd)}

\* C23: every return is compared with the return type its own enclosing
\* definition declares, also when an earlier definition has the same name:
\* the ReturnTypeMismatch diagnostics (func n, expected ex, found fd) are as
\* many as the returns of type fd # ex in the definitions of n that declare
\* ex.
C23_ReturnCheckedAgainstEnclosingDefinition ==
    AnalyzeReturned =>
        \A n \in FunctionNamesOf(program) : \A ex \in AllTypes : \A fd \in AllTypes :
            CountErrors(LAMBDA e : e.kind = "ReturnTypeMismatch" /\ e.func = n
                                   /\ e.expected = ex /\ e.found = fd)
               = IF ex = fd THEN 0 ELSE Cardinality(ReturnsIn(program, n, ex, fd))

\* The diagnostics the step pushed.
NewErrors == SubSeq(errors', Len(errors) + 1, Len(errors'))

\* The step analyzes a variable declaration.
DeclarationStep ==
    /\ pc = "body"
    /\ si' = si + 1
    /\ CurFunction.body.stmts[si].kind = "VarDecl"

\* C24: a declaration whose name is in the current scope records exactly
\* one DuplicateVariable and nothing else, and leaves the table (the earlier
\* symbol and its type) as it was; a declaration that succeeds has its name
\* in the current scope with the declared type while its initializer is
\* analyzed, so the initializer's use of the name is not undeclared.
C24_DuplicateDeclarationSkipsInitializer ==
    [][DeclarationStep =>
          LET st == CurFunction.body.stmts[si]
          IN IF st.name \in DOMAIN symbols.scopes[symbols.current].symbols
             THEN /\ NewErrors = <<DuplicateVariable(CurFunction.name, st.name)>>
                  /\ symbols' = symbols
             ELSE /\ symbols'.scopes[symbols.current].symbols[st.name]
                        = SymVariable(st.name, st.ty)
                  /\ \A k \in 1..Len(NewErrors) :
                        /\ NewErrors[k].kind # "DuplicateVariable"
                        /\ ~(NewErrors[k].kind = "UndeclaredVariable"
                             /\ NewErrors[k].name = st.name)]_vars

\* The second declaration of b, of type Float with the Int parameter a as
\* its initializer, was analyzed after the first: the last diagnostic is its
\* DuplicateVariable, no TypeMismatch was recorded, and b is still Int.
C24_Witness ==
    /\ pc = "body"
    /\ si = 3
    /\ CurFunction.params = <<<<"Int", "a">>>>
    /\ CurFunction.body.stmts
          = <<VarDecl("Int", "b", Number(1)), VarDecl("Float", "b", Ident("a"))>>
    /\ errors # <<>>
    /\ errors[Len(errors)] = DuplicateVariable(CurFunction.name, "b")
    /\ \A k \in 1..Len(errors) : errors[k].kind # "TypeMismatch"
    /\ symbols.scopes[symbols.current].symbols["b"] = SymVariable("b", "Int")

----------------------------------------------------------------------------
(* Claims about declarations and scopes (checked under SpecDecl) *)

\* The TypeMismatch diagnostics among the ones the step pushed.
NewTypeMismatches == SelectSeq(NewErrors, LAMBDA e : e.kind = "TypeMismatch")

CollidingDecls(f) ==
    {j \in 1..Len(f.body.stmts) : f.body.stmts[j].kind = "VarDecl" /\ ~DeclSucceeds(f, j)}

\* C26: while a function's body is analyzed the current scope is the newest
\* scope, its only ancestor is scope 0 and it holds names of that function
\* only; between functions and afterwards the current scope is scope 0;
\* scope 0 holds function signatures only; a name of another function is
\* reported undeclared, and a DuplicateVariable is recorded only for a
\* collision inside one function.
C26_FreshScopePerFunction ==
    /\ \A n \in DOMAIN symbols.scopes[0].symbols : symbols.scopes[0].symbols[n].kind = "Function"
    /\ pc = "body" =>
          /\ symbols.current = NumScopes(symbols) - 1
          /\ symbols.current # 0
          /\ symbols.scopes[symbols.current].parent = Some(0)
          /\ DOMAIN symbols.scopes[symbols.current].symbols
                \subseteq ParamNameSet(CurFunction) \cup LocalsUpTo(CurFunction, si - 1)
    /\ pc # "body" => symbols.current = 0
    /\ AnalyzeReturned =>
          \A i \in 1..Len(program.functions) :
              LET f == program.functions[i]
              IN /\ CountErrors(LAMBDA e : e.kind = "DuplicateVariable" /\ e.func = f.name)
                       = Cardinality(CollidingDecls(f))
                 /\ CountErrors(LAMBDA e : e.kind = "UndeclaredVariable" /\ e.func = f.name)
                       = ExpectedUndeclared(program, f.name)

\* f(int a) declares b; h() declares b too and returns it: analyze has
\* returned without a diagnostic, each body in a scope of its own.
C26_Witness ==
    /\ AnalyzeReturned
    /\ program = Program(<<Declaring("Int", Number(1)),
                           Function("h", "Int", <<>>,
                                    <<VarDecl("Int", "b", Number(2)), Return(Ident("b"))>>)>>)
    /\ errors = <<>>
    /\ NumScopes(symbols) = 3
    /\ "b" \in DOMAIN symbols.scopes[1].symbols
    /\ "b" \in DOMAIN symbols.scopes[2].symbols

----------------------------------------------------------------------------
(* Claims about the order of lowering (checked under SpecDecl) *)

\* What an instruction is, apart from its operands and its temporary.
Mark(in) ==
    CASE in.kind = "BinOp" -> <<"BinOp", in.op>>
      [] in.kind = "StoreLocal" -> <<"StoreLocal", in.name>>
      [] in.kind = "Call" -> <<"Call", in.name, Len(in.args)>>
      [] in.kind = "Return" -> <<"Return">>

\* The operator symbols of the source operators.
SymbolOf(op) ==
    CASE op = "Add" -> "+"
      [] op = "Sub" -> "-"
      [] op = "Mul" -> "*"
      [] op = "Div" -> "/"
      [] op = "Neg" -> "neg"
      [] op = "Not" -> "not"

RECURSIVE ConcatAll(_)
ConcatAll(qs) == IF qs = <<>> THEN <<>> ELSE qs[1] \o ConcatAll(Tail(qs))

\* The marks of an expression in source order: those of the left operand,
\* then those of the right operand, then the operator's; those of the
\* arguments from left to right, then the call's; those of the right-hand
\* side, then the assignment's store.
RECURSIVE SourceOrder(_)
SourceOrder(e) ==
    CASE e.kind = "Unary" -> Append(SourceOrder(e.expr), <<"BinOp", SymbolOf(e.op)>>)
      [] e.kind = "Binary" ->
            SourceOrder(e.left) \o SourceOrder(e.right) \o <<<<"BinOp", SymbolOf(e.op)>>>>
      [] e.kind = "Call" ->
            Append(ConcatAll([k \in 1..Len(e.args) |-> SourceOrder(e.args[k])]),
                   <<"Call", e.name, Len(e.args)>>)
      [] e.kind = "Assign" -> Append(SourceOrder(e.value), <<"StoreLocal", e.name>>)
      [] OTHER -> <<>>

\* The marks of a statement: its expression's, then its own.
StmtOrder(st) ==
    CASE st.kind = "VarDecl" -> Append(SourceOrder(st.value), <<"StoreLocal", st.name>>)
      [] st.kind = "ExprStmt" -> SourceOrder(st.expr)
      [] st.kind = "Return" -> Append(SourceOrder(st.expr), <<"Return">>)

\* lower_program has returned.
LowerReturned == pc \in {"lowered", "done"}

\* C27: lower_program returns one unit per function in program order with
\* the function's name and parameter names, and a unit's instructions are
\* those of its statements in statement order, every statement included,
\* each expression's in source order.
C27_LoweringKeepsSourceOrder ==
    LowerReturned =>
        /\ Len(res) = Len(program.functions)
        /\ \A i \in 1..Len(res) :
              LET f == program.functions[i]
              IN /\ res[i].name = f.name
                 /\ res[i].params = [k \in 1..Len(f.params) |-> f.params[k][2]]
                 /\ [k \in 1..Len(res[i].instrs) |-> Mark(res[i].instrs[k])]
                       = ConcatAll([j \in 1..Len(f.body.stmts) |-> StmtOrder(f.body.stmts[j])])

\* The two functions were lowered: h(c, a) with + before - before * before
\* the store and the return last, f with the statement after its return.
C27_Witness ==
    /\ LowerReturned
    /\ program = Program(<<AssignThenReturn, ReturnThenCall>>)
    /\ Len(res) = 2
    /\ res[1].params = <<"c", "a">>
    /\ Len(res[1].instrs) = 6
    /\ Len(res[2].instrs) = 5
    /\ res[2].instrs[1].kind = "Return"
    /\ res[2].instrs[4].kind = "Call"

----------------------------------------------------------------------------
(* Claims about the emitters on any unit (checked under SpecEmit) *)

\* The text of an operand in a TAC line.
OperandText(o) ==
    CASE o.kind = "Temp" -> o.name
      [] o.kind = "Local" -> "%" \o o.name
      [] o.kind = "ConstInt" -> ToString(o.i)
      [] o.kind = "ConstString" -> "\"" \o o.s \o "\""

\* The texts of a list separated by ", ".
RECURSIVE CommaList(_)
CommaList(q) ==
    IF q = <<>> THEN ""
    ELSE IF Len(q) = 1 THEN q[1]
    ELSE q[1] \o ", " \o CommaList(Tail(q))

\* The line the claim gives an instruction.
Rendered(in) ==
    CASE in.kind = "StoreLocal" -> "  MOV %" \o in.name \o ", " \o OperandText(in.src)
      [] in.kind = "Call" ->
            (IF IsSome(in.dest) THEN "  " \o Unwrap(in.dest) \o " = " ELSE "  ")
            \o "CALL " \o in.name \o "("
            \o CommaList([k \in 1..Len(in.args) |-> OperandText(in.args[k])]) \o ")"
      [] in.kind = "Return" ->
            IF IsSome(in.src) THEN "  RET " \o OperandText(Unwrap(in.src)) ELSE "  RET"
      [] in.kind = "BinOp" ->
            "  " \o in.dest \o " = " \o OperandText(in.left) \o " " \o in.op \o " "
            \o OperandText(in.right)

\* C28: the TAC text of a unit is the .func header with the name and the
\* parameter names, the opening brace, one line per instruction in
\* instruction order (MOV; CALL, with an assignment exactly when there is a
\* destination; RET, with an operand exactly when there is one; dest = left
\* op right) and the closing brace, nothing else; the unit is not modified.
C28_OneLinePerInstruction ==
    /\ [](TacReturned =>
            /\ Len(tac) = Len(Unit.instrs) + 3
            /\ tac[1] = ".func " \o Unit.name \o "(" \o CommaList(Unit.params) \o ")"
            /\ tac[2] = "{"
            /\ \A k \in 1..Len(Unit.instrs) : tac[k + 2] = Rendered(Unit.instrs[k])
            /\ tac[Len(tac)] = "}")
    /\ [][(pc \in {"done", "tac"}) => (res' = res)]_vars

\* The text of a unit with two parameters, a call without a destination,
\* a call with one and a return without an operand was returned.
C28_Witness ==
    /\ TacReturned
    /\ Unit.params = <<"a", "b">>
    /\ Unit.instrs = <<CallInstr(None, "g", <<>>),
                       CallInstr(Some("t0"), "g", <<Local("a"), ConstString("hi")>>),
                       ReturnInstr(None)>>
    /\ tac = <<".func f(a, b)", "{", "  CALL g()", "  t0 = CALL g(%a, \"hi\")", "  RET", "}">>

\* The lines the step appended to the x64 text.
NewLines == SubSeq(out', Len(out) + 1, Len(out'))

\* restore rsp from rbp, pop rbp, ret
FrameRestoringReturn ==
    <<[asm |-> "mov", dst |-> "rsp", src |-> "rbp"], [asm |-> "pop", reg |-> "rbp"],
      [asm |-> "ret"]>>

----------------------------------------------------------------------------
(* The scope arena (checked under SpecSym) *)

\* The scopes lookup visits from scope idx on, following parent indices for
\* at most fuel steps.
RECURSIVE ParentWalk(_, _, _)
ParentWalk(t, idx, fuel) ==
    IF fuel = 0 \/ idx \notin DOMAIN t.scopes \/ ~IsSome(t.scopes[idx].parent)
    THEN <<idx>>
    ELSE <<idx>> \o ParentWalk(t, Unwrap(t.scopes[idx].parent), fuel - 1)

ArenaWellFormed(t) ==
    /\ DOMAIN t.scopes = 0..(NumScopes(t) - 1)
    /\ t.scopes[0].parent = None
    /\ \A i \in DOMAIN t.scopes :
          i # 0 => /\ IsSome(t.scopes[i].parent)
                   /\ Unwrap(t.scopes[i].parent) \in 0..(i - 1)
    /\ t.current \in DOMAIN t.scopes

\* C30: after any sequence of operations scope 0 exists without a parent,
\* every other scope's parent index is smaller than its own, current is a
\* valid index, no operation removes or re-parents a scope, and the parent
\* walk of lookup from the current scope visits no scope twice and ends at
\* scope 0.
C30_ArenaWellFormed ==
    /\ [](/\ ArenaWellFormed(symbols)
          /\ LET walk == ParentWalk(symbols, symbols.current, NumScopes(symbols))
             IN /\ \A i, j \in 1..Len(walk) : walk[i] = walk[j] => i = j
                /\ walk[Len(walk)] = 0)
    /\ [][\A i \in DOMAIN symbols.scopes :
             /\ i \in DOMAIN symbols'.scopes
             /\ symbols'.scopes[i].parent = symbols.scopes[i].parent]_vars

\* Two nested scopes were entered and left again, and a lookup ran from the
\* global scope with both still in the arena.
C30_Witness ==
    /\ NumScopes(symbols) = 3
    /\ symbols.scopes[2].parent = Some(1)
    /\ symbols.scopes[1].parent = Some(0)
    /\ symbols.current = 0
    /\ last.op = "lookup"

====
